---- MODULE Spec2Model ----
(***************************************************************************)
(* FlashPress News: the storage contract (MemStorage, DatabaseStorage),    *)
(* the authentication service (AuthService) and the route handlers of      *)
(* server/routes.ts, as a state machine.                                   *)
(*                                                                         *)
(* A request handler is one action.  An optional value (T | undefined,     *)
(* T | null) is a sequence of length 0 or 1.  A call that may throw        *)
(* returns a record with a field "threw".  A Map of MemStorage and a table *)
(* of DatabaseStorage is a sequence of records in insertion order.         *)
(***************************************************************************)
EXTENDS Integers, Sequences, FiniteSets, TLC

VARIABLES
    backend,      \* "mem" (MemStorage) or "db" (DatabaseStorage): the exported storage
    now,          \* the wall clock, in days
    nextId,       \* the number of identifiers drawn so far (randomUUID / gen_random_uuid)
    users,        \* MemStorage.users / table users
    articles,     \* MemStorage.articles / table articles
    likes,        \* MemStorage.likes / table likes
    comments,     \* MemStorage.comments / table comments
    bookmarks,    \* MemStorage.bookmarks / table bookmarks
    resources,    \* MemStorage.tnpscResources / table tnpsc_resources
    sessions,     \* MemStorage.chatSessions / table chat_sessions
    twin,         \* the tables of a DatabaseStorage given the same calls as MemStorage
    inflight,     \* the requests being served: where each handler stands, what it holds
    registered,   \* history: what the clients of successful Register calls sent and got
    last          \* history: the latest request, its response, the storage it found

vars == <<backend, now, nextId, users, articles, likes, comments, bookmarks,
          resources, sessions, twin, inflight, registered, last>>

store == <<users, articles, likes, comments, bookmarks, resources, sessions>>

\* what the handlers of one request at a time never touch
aside == <<resources, sessions, twin, inflight>>

----------------------------------------------------------------------------
(* Bounds of the model *)

MaxClock == 2

MaxContractIds == 2

MaxRequests == 2

MaxMessages == 4

(* Input alphabets *)

Idents == {"ann", "bob"}          \* strings used as usernames and as emails
Passwords == {"pw1", "pw2"}
Salts == {"saltA", "saltB"}
UserIds == {1, 2}

----------------------------------------------------------------------------
(* Sequences *)

Range(s) == {s[i] : i \in DOMAIN s}

\* the first element of an array, or undefined: what Array.prototype.find
\* returns of the elements that pass its test, and what const [x] = rows binds
First(s) == IF s = <<>> THEN <<>> ELSE <<s[1]>>

----------------------------------------------------------------------------
(* bcrypt: a salted one-way hash.  The digest is a function of the cost,   *)
(* the salt and the password; the stored string carries cost and salt.     *)

BcryptCost == 10

BcryptDigest(password, salt, cost) == <<"bcrypt", cost, salt, password>>

BcryptHash(password, salt, cost) ==
    [cost |-> cost, salt |-> salt, digest |-> BcryptDigest(password, salt, cost)]

BcryptCompare(password, hashed) ==
    BcryptDigest(password, hashed.salt, hashed.cost) = hashed.digest

hashPassword(password, salt) == BcryptHash(password, salt, BcryptCost)

verifyPassword_FixedSalt(password, hashedPassword) ==
    BcryptDigest(password, "saltA", hashedPassword.cost) = hashedPassword.digest

verifyPassword(password, hashedPassword) == BcryptCompare(password, hashedPassword)

----------------------------------------------------------------------------
(* jsonwebtoken: a token is its segment count, its claims and its          *)
(* signature, an HMAC of the claims under the signing secret.              *)

TokenTTL == 7                      \* expiresIn: '7d'

jwtSecret == "fallback-secret-key"
OtherSecret == "another-secret"

Hmac(claims, secret) == <<"HS256", claims, secret>>

JwtSign(payload, secret, t) ==
    LET claims == [userId |-> payload.userId, username |-> payload.username,
                   iat |-> t, exp |-> t + TokenTTL]
    IN  [segments |-> 3, claims |-> claims, sig |-> Hmac(claims, secret)]

\* jwt.verify: throws on a malformed token, a bad signature, an expired token
JwtVerify(token, secret, t) ==
    IF token.segments # 3
    THEN [threw |-> TRUE, error |-> "jwt malformed", payload |-> <<>>]
    ELSE IF token.sig # Hmac(token.claims, secret)
    THEN [threw |-> TRUE, error |-> "invalid signature", payload |-> <<>>]
    ELSE IF t >= token.claims.exp
    THEN [threw |-> TRUE, error |-> "jwt expired", payload |-> <<>>]
    ELSE [threw |-> FALSE, error |-> "", payload |-> <<token.claims>>]

generateToken(payload, t) == JwtSign(payload, jwtSecret, t)

verifyToken_NoCatch(token, t) == JwtVerify(token, jwtSecret, t)

verifyToken(token, t) ==
    LET r == JwtVerify(token, jwtSecret, t)
    IN  IF r.threw
        THEN [threw |-> FALSE, error |-> "", payload |-> <<>>]
        ELSE r

----------------------------------------------------------------------------
(* Records *)

\* the object spread {...a, ...b}: the fields of both, b's winning
Spread(a, b) ==
    [f \in (DOMAIN a) \cup (DOMAIN b) |-> IF f \in DOMAIN b THEN b[f] ELSE a[f]]

\* the rest pattern const { k, ...rest } = a
Without(a, k) == [f \in (DOMAIN a) \ {k} |-> a[f]]

----------------------------------------------------------------------------
(* Storage: users *)

Mem_getUserByUsername(us, username) ==
    First(SelectSeq(us, LAMBDA u : u.username = username))

Mem_getUserByEmail(us, email) ==
    First(SelectSeq(us, LAMBDA u : u.email = email))

\* randomUUID(), new Date(), Map.set: the new user and the new contents
Mem_createUser(us, nid, insertUser, t) ==
    LET user == Spread(insertUser, [id |-> nid + 1, createdAt |-> t])
    IN  [users |-> Append(us, user), nextId |-> nid + 1, user |-> user]

\* const [user] = await db.select()...where(eq(..)); return user || undefined
Db_getUserByUsername(us, username) ==
    First(SelectSeq(us, LAMBDA u : u.username = username))

Db_getUserByEmail(us, email) ==
    First(SelectSeq(us, LAMBDA u : u.email = email))

\* insert ... returning(): the row with the generated id and created_at
Db_createUser(us, nid, insertUser, t) ==
    LET user == Spread(insertUser, [id |-> nid + 1, createdAt |-> t])
    IN  [users |-> Append(us, user), nextId |-> nid + 1, user |-> user]

Mem_getUser(us, id) == First(SelectSeq(us, LAMBDA u : u.id = id))

Db_getUser(us, id) == First(SelectSeq(us, LAMBDA u : u.id = id))

getUserByUsername(us, username) ==
    IF backend = "mem" THEN Mem_getUserByUsername(us, username)
                       ELSE Db_getUserByUsername(us, username)

getUserByEmail(us, email) ==
    IF backend = "mem" THEN Mem_getUserByEmail(us, email)
                       ELSE Db_getUserByEmail(us, email)

createUser(us, nid, insertUser, t) ==
    IF backend = "mem" THEN Mem_createUser(us, nid, insertUser, t)
                       ELSE Db_createUser(us, nid, insertUser, t)

----------------------------------------------------------------------------
(* AuthService *)

userWithoutPassword_Whole(user) == user

\* const { password, ...userWithoutPassword } = user
userWithoutPassword(user) == Without(user, "password")

AuthThrew(us, nid, error) ==
    [threw |-> TRUE, error |-> error, users |-> us, nextId |-> nid,
     user |-> <<>>, token |-> <<>>]

register_NoUsernameCheck(us, nid, userData, salt, t) ==
    IF getUserByEmail(us, userData.email) # <<>>
    THEN AuthThrew(us, nid, "User with this email already exists")
    ELSE LET c == createUser(us, nid,
                      Spread(userData, [password |-> hashPassword(userData.password, salt)]), t)
         IN  [threw |-> FALSE, error |-> "", users |-> c.users, nextId |-> c.nextId,
              user |-> <<userWithoutPassword(c.user)>>,
              token |-> <<generateToken([userId |-> c.user.id,
                                         username |-> c.user.username], t)>>]

\* AuthService.register(userData); salt is the salt bcrypt draws, t the time
register(us, nid, userData, salt, t) ==
    IF getUserByEmail(us, userData.email) # <<>>
    THEN AuthThrew(us, nid, "User with this email already exists")
    ELSE IF getUserByUsername(us, userData.username) # <<>>
    THEN AuthThrew(us, nid, "Username already taken")
    ELSE LET hashedPassword == hashPassword(userData.password, salt)
             c == createUser(us, nid, Spread(userData, [password |-> hashedPassword]), t)
         IN  [threw |-> FALSE, error |-> "", users |-> c.users, nextId |-> c.nextId,
              user |-> <<userWithoutPassword(c.user)>>,
              token |-> <<generateToken([userId |-> c.user.id,
                                         username |-> c.user.username], t)>>]

LoginOutcome(us, nid, found, password, t) ==
    IF found = <<>>
    THEN AuthThrew(us, nid, "Invalid credentials")
    ELSE IF ~verifyPassword(password, found[1].password)
    THEN AuthThrew(us, nid, "Invalid credentials")
    ELSE [threw |-> FALSE, error |-> "", users |-> us, nextId |-> nid,
          user |-> <<userWithoutPassword(found[1])>>,
          token |-> <<generateToken([userId |-> found[1].id,
                                     username |-> found[1].username], t)>>]

login_EmailFirst(us, nid, username, password, t) ==
    LET byEmail == getUserByEmail(us, username)
        found == IF byEmail = <<>> THEN getUserByUsername(us, username) ELSE byEmail
    IN  LoginOutcome(us, nid, found, password, t)

login_LeakyMessage(us, nid, username, password, t) ==
    LET byName == getUserByUsername(us, username)
        found == IF byName = <<>> THEN getUserByEmail(us, username) ELSE byName
    IN  IF found = <<>>
        THEN AuthThrew(us, nid, "User not found")
        ELSE LoginOutcome(us, nid, found, password, t)

\* AuthService.login(username, password)
login(us, nid, username, password, t) ==
    LET byName == getUserByUsername(us, username)
        found == IF byName = <<>> THEN getUserByEmail(us, username) ELSE byName
    IN  LoginOutcome(us, nid, found, password, t)

----------------------------------------------------------------------------
(* Request bodies of the auth routes *)

RegisterBodies ==
    [username : Idents, email : Idents, password : Passwords]
        \cup [username : {"ann"}, email : {"ann"}]

\* insertUserSchema.parse: the three fields are required
insertUserSchema(body) ==
    IF {"username", "email", "password"} \subseteq DOMAIN body
    THEN [threw |-> FALSE, error |-> "",
          value |-> <<[f \in {"username", "email", "password"} |-> body[f]]>>]
    ELSE [threw |-> TRUE, error |-> "Required", value |-> <<>>]

AuthResponse(status, message, user, token) ==
    [status |-> status, message |-> message, user |-> user, token |-> token]

----------------------------------------------------------------------------
(* The state after construction *)

NoCall == [op |-> "none"]

\* tnpscData of initializeSampleData, its ids drawn at construction
SampleResources ==
    <<[id |-> 0, title |-> "Tamil Nadu History", category |-> "book",
       subject |-> "History", examStage |-> "prelims", description |-> <<"guide">>,
       createdAt |-> 0],
      [id |-> -1, title |-> "Indian Polity", category |-> "book",
       subject |-> "Polity", examStage |-> "mains", description |-> <<"guide">>,
       createdAt |-> 0],
      [id |-> -2, title |-> "Geography Notes", category |-> "notes",
       subject |-> "Geography", examStage |-> "prelims", description |-> <<"guide">>,
       createdAt |-> 0]>>

\* the tables of a database that holds what a new MemStorage holds
FreshTables ==
    [users |-> <<>>, articles |-> <<>>, likes |-> <<>>, comments |-> <<>>,
     bookmarks |-> <<>>, resources |-> SampleResources, sessions |-> <<>>]

Init ==
    /\ backend \in {"mem", "db"}
    /\ now = 0
    /\ nextId = 0
    /\ users = <<>>
    /\ articles = <<>>
    /\ likes = <<>>
    /\ comments = <<>>
    /\ bookmarks = <<>>
    /\ resources = IF backend = "mem" THEN SampleResources ELSE <<>>
    /\ sessions = <<>>
    /\ twin = FreshTables
    /\ inflight = <<>>
    /\ registered = {}
    /\ last = NoCall

\* the history of a call: what was asked, what was answered, what storage held
Call(op, request, response, before) ==
    [op |-> op, req |-> request, resp |-> response, pre |-> before]

Tick ==
    /\ now < MaxClock
    /\ now' = now + 1
    /\ UNCHANGED <<backend, aside, nextId, store, registered, last>>

----------------------------------------------------------------------------
(* POST /api/auth/register *)

RegisterHandler(body, salt) ==
    LET parsed == insertUserSchema(body)
        r == IF parsed.threw
             THEN AuthThrew(users, nextId, parsed.error)
             ELSE register(users, nextId, parsed.value[1], salt, now)
        response == IF r.threw
                    THEN AuthResponse(400, r.error, <<>>, <<>>)
                    ELSE AuthResponse(200, "", r.user, r.token)
    IN  /\ users' = r.users
        /\ nextId' = r.nextId
        /\ registered' = IF r.threw THEN registered
                         ELSE registered \cup
                              {[username |-> body.username, email |-> body.email,
                                password |-> body.password, userId |-> r.user[1].id]}
        /\ last' = Call("register", body, response, users)
        /\ UNCHANGED <<backend, aside, now, articles, likes, comments, bookmarks>>

Register == \E body \in RegisterBodies, salt \in Salts : RegisterHandler(body, salt)

(* POST /api/auth/login *)

LoginHandler(username, password) ==
    LET r == login(users, nextId, username, password, now)
        response == IF username = "" \/ password = ""
                    THEN AuthResponse(400, "Username and password required", <<>>, <<>>)
                    ELSE IF r.threw
                    THEN AuthResponse(401, r.error, <<>>, <<>>)
                    ELSE AuthResponse(200, "", r.user, r.token)
    IN  /\ last' = Call("login", [username |-> username, password |-> password],
                        response, users)
        /\ UNCHANGED <<backend, aside, now, nextId, store, registered>>

Login ==
    \E username \in Idents \cup {""}, password \in Passwords \cup {""} :
        LoginHandler(username, password)

(* AuthService.verifyToken, called on any token *)

\* tokens nobody was issued by this process: issued earlier under the same
\* secret (fresh or expired), signed under another secret, re-labelled, garbage
ForeignTokens ==
    {JwtSign([userId |-> 1, username |-> "ann"], s, t) :
        s \in {jwtSecret, OtherSecret}, t \in {0 - TokenTTL, 1 - TokenTTL, 0}}
    \cup {[JwtSign([userId |-> 1, username |-> "ann"], jwtSecret, 0)
              EXCEPT !.claims.userId = 2]}
    \cup {[JwtSign([userId |-> 1, username |-> "ann"], jwtSecret, 0)
              EXCEPT !.segments = 1]}

IssuedTokens == IF last.op \in {"register", "login"} THEN Range(last.resp.token) ELSE {}

VerifyTokenCall(token) ==
    /\ last' = Call("verify", token, verifyToken(token, now), users)
    /\ UNCHANGED <<backend, aside, now, nextId, store, registered>>

VerifyToken == \E token \in ForeignTokens \cup IssuedTokens : VerifyTokenCall(token)

NextAuth == Register \/ Login \/ VerifyToken

SpecAuth == Init /\ [][NextAuth]_vars

----------------------------------------------------------------------------
(* Arrays *)

Max(a, b) == IF a >= b THEN a ELSE b

Min(a, b) == IF a <= b THEN a ELSE b

\* Array.prototype.slice(start, end)
Slice(s, start, end) ==
    LET from == IF start < 0 THEN Max(Len(s) + start, 0) ELSE Min(start, Len(s))
        to == IF end < 0 THEN Max(Len(s) + end, 0) ELSE Min(end, Len(s))
    IN  IF from >= to THEN <<>> ELSE SubSeq(s, from + 1, to)

\* one step of a stable descending sort: x goes behind every element whose
\* key is greater than or equal to its own
InsertDescBy(sorted, x, field) ==
    LET k == Cardinality({i \in DOMAIN sorted : sorted[i][field] >= x[field]})
    IN  SubSeq(sorted, 1, k) \o <<x>> \o SubSeq(sorted, k + 1, Len(sorted))

RECURSIVE SortDescBy(_, _)
\* Array.prototype.sort((a, b) => b[field] - a[field]): descending and stable
SortDescBy(s, field) ==
    IF s = <<>> THEN <<>>
    ELSE InsertDescBy(SortDescBy(SubSeq(s, 1, Len(s) - 1), field), s[Len(s)], field)

IsDescBy(s, field) == \A i \in 1 .. (Len(s) - 1) : s[i][field] >= s[i + 1][field]

Orderings(s) ==
    LET n == Len(s)
        maps == {p \in [1 .. n -> 1 .. n] : \A i, j \in 1 .. n : p[i] = p[j] => i = j}
    IN  {[i \in 1 .. n |-> s[p[i]]] : p \in maps}

\* ORDER BY desc(field): any order of the rows that descends in the field
\* (SQL leaves the order of rows with equal keys open)
OrderByDesc(rows, field) == {p \in Orderings(rows) : IsDescBy(p, field)}

\* LIMIT limit OFFSET offset
LimitOffset(rows, limit, offset) == SubSeq(rows, offset + 1, Min(offset + limit, Len(rows)))

----------------------------------------------------------------------------
(* Storage: articles.  category "" stands for an absent (undefined) one.   *)

DefaultLimit == 20

Mem_getArticles_Unsorted(as, category, limit, offset) ==
    LET filtered == IF category # "" /\ category # "all"
                    THEN SelectSeq(as, LAMBDA a : a.category = category)
                    ELSE as
    IN  {Slice(filtered, offset, offset + limit)}

Mem_getArticles_NoFilter(as, category, limit, offset) ==
    {Slice(SortDescBy(as, "publishedAt"), offset, offset + limit)}

\* the results getArticles may return: one, for MemStorage
Mem_getArticles(as, category, limit, offset) ==
    LET filtered == IF category # "" /\ category # "all"
                    THEN SelectSeq(as, LAMBDA a : a.category = category)
                    ELSE as
    IN  {Slice(SortDescBy(filtered, "publishedAt"), offset, offset + limit)}

Db_getArticles(as, category, limit, offset) ==
    LET rows == IF category # "" /\ category # "all"
                THEN SelectSeq(as, LAMBDA a : a.category = category)
                ELSE as
    IN  {LimitOffset(sorted, limit, offset) : sorted \in OrderByDesc(rows, "publishedAt")}

Mem_getArticleById(as, id) == First(SelectSeq(as, LAMBDA a : a.id = id))

Db_getArticleById(as, id) == First(SelectSeq(as, LAMBDA a : a.id = id))

Mem_getArticleByUrl_Miss(as, url) == <<>>

Mem_getArticleByUrl(as, url) == First(SelectSeq(as, LAMBDA a : a.url = url))

Db_getArticleByUrl(as, url) == First(SelectSeq(as, LAMBDA a : a.url = url))

Mem_createArticle_ByUrl(as, nid, insertArticle, t) ==
    LET stored == SelectSeq(as, LAMBDA a : a.url = insertArticle.url)
        article == Spread(insertArticle, [id |-> nid + 1, likes |-> 0, createdAt |-> t])
    IN  IF stored # <<>>
        THEN [articles |-> as, nextId |-> nid, article |-> stored[1]]
        ELSE [articles |-> Append(as, article), nextId |-> nid + 1, article |-> article]

Mem_createArticle(as, nid, insertArticle, t) ==
    LET article == Spread(insertArticle, [id |-> nid + 1, likes |-> 0, createdAt |-> t])
    IN  [articles |-> Append(as, article), nextId |-> nid + 1, article |-> article]

\* the column default of articles.likes
ArticleLikesDefault == 0

Db_createArticle(as, nid, insertArticle, t) ==
    LET article == Spread([id |-> nid + 1, likes |-> ArticleLikesDefault, createdAt |-> t],
                          insertArticle)
    IN  [articles |-> Append(as, article), nextId |-> nid + 1, article |-> article]

Mem_updateArticleLikes_All(as, id, n) == [i \in DOMAIN as |-> [as[i] EXCEPT !.likes = n]]

\* this.articles.set(id, { ...article, likes }) when the id is a key
Mem_updateArticleLikes(as, id, n) ==
    [i \in DOMAIN as |-> IF as[i].id = id THEN [as[i] EXCEPT !.likes = n] ELSE as[i]]

\* update articles set likes = n where id = id
Db_updateArticleLikes(as, id, n) ==
    [i \in DOMAIN as |-> IF as[i].id = id THEN [as[i] EXCEPT !.likes = n] ELSE as[i]]

getArticles(as, category, limit, offset) ==
    IF backend = "mem" THEN Mem_getArticles(as, category, limit, offset)
                       ELSE Db_getArticles(as, category, limit, offset)

getArticleById(as, id) ==
    IF backend = "mem" THEN Mem_getArticleById(as, id) ELSE Db_getArticleById(as, id)

getArticleByUrl(as, url) ==
    IF backend = "mem" THEN Mem_getArticleByUrl(as, url) ELSE Db_getArticleByUrl(as, url)

createArticle(as, nid, insertArticle, t) ==
    IF backend = "mem" THEN Mem_createArticle(as, nid, insertArticle, t)
                       ELSE Db_createArticle(as, nid, insertArticle, t)

updateArticleLikes(as, id, n) ==
    IF backend = "mem" THEN Mem_updateArticleLikes(as, id, n)
                       ELSE Db_updateArticleLikes(as, id, n)

----------------------------------------------------------------------------
(* Storage: likes *)

\* Map.delete(id): the entries but the one with that id
RemoveId(s, id) == SelectSeq(s, LAMBDA x : x.id # id)

Mem_getLikeByUserAndArticle_Blind(ls, userId, articleId) == <<>>

Mem_getLikeByUserAndArticle(ls, userId, articleId) ==
    First(SelectSeq(ls, LAMBDA l : l.userId = userId /\ l.articleId = articleId))

Db_getLikeByUserAndArticle(ls, userId, articleId) ==
    First(SelectSeq(ls, LAMBDA l : l.userId = userId /\ l.articleId = articleId))

Mem_createLike_Upsert(ls, nid, userId, articleId, t) ==
    LET found == First(SelectSeq(ls, LAMBDA l : l.userId = userId /\ l.articleId = articleId))
        like == [id |-> nid + 1, userId |-> userId, articleId |-> articleId, createdAt |-> t]
    IN  IF found # <<>>
        THEN [likes |-> ls, nextId |-> nid, like |-> found[1]]
        ELSE [likes |-> Append(ls, like), nextId |-> nid + 1, like |-> like]

Mem_createLike(ls, nid, userId, articleId, t) ==
    LET like == [id |-> nid + 1, userId |-> userId, articleId |-> articleId, createdAt |-> t]
    IN  [likes |-> Append(ls, like), nextId |-> nid + 1, like |-> like]

Db_createLike(ls, nid, userId, articleId, t) ==
    LET like == [id |-> nid + 1, userId |-> userId, articleId |-> articleId, createdAt |-> t]
    IN  [likes |-> Append(ls, like), nextId |-> nid + 1, like |-> like]

Mem_deleteLike_Nothing(ls, userId, articleId) == ls

\* the first match is deleted
Mem_deleteLike(ls, userId, articleId) ==
    LET like == First(SelectSeq(ls, LAMBDA l : l.userId = userId /\ l.articleId = articleId))
    IN  IF like # <<>> THEN RemoveId(ls, like[1].id) ELSE ls

\* every match is deleted
Db_deleteLike(ls, userId, articleId) ==
    SelectSeq(ls, LAMBDA l : ~(l.userId = userId /\ l.articleId = articleId))

getLikeByUserAndArticle(ls, userId, articleId) ==
    IF backend = "mem" THEN Mem_getLikeByUserAndArticle(ls, userId, articleId)
                       ELSE Db_getLikeByUserAndArticle(ls, userId, articleId)

createLike(ls, nid, userId, articleId, t) ==
    IF backend = "mem" THEN Mem_createLike(ls, nid, userId, articleId, t)
                       ELSE Db_createLike(ls, nid, userId, articleId, t)

deleteLike(ls, userId, articleId) ==
    IF backend = "mem" THEN Mem_deleteLike(ls, userId, articleId)
                       ELSE Db_deleteLike(ls, userId, articleId)

----------------------------------------------------------------------------
(* Storage: comments *)

Mem_createComment(cs, nid, insertComment, t) ==
    LET comment == Spread(insertComment, [id |-> nid + 1, createdAt |-> t])
    IN  [comments |-> Append(cs, comment), nextId |-> nid + 1, comment |-> comment]

Db_createComment(cs, nid, insertComment, t) ==
    LET comment == Spread([id |-> nid + 1, createdAt |-> t], insertComment)
    IN  [comments |-> Append(cs, comment), nextId |-> nid + 1, comment |-> comment]

createComment(cs, nid, insertComment, t) ==
    IF backend = "mem" THEN Mem_createComment(cs, nid, insertComment, t)
                       ELSE Db_createComment(cs, nid, insertComment, t)

----------------------------------------------------------------------------
(* Storage: bookmarks *)

Mem_getBookmarksByUserId(bs, userId) ==
    {SortDescBy(SelectSeq(bs, LAMBDA b : b.userId = userId), "createdAt")}

Db_getBookmarksByUserId(bs, userId) ==
    OrderByDesc(SelectSeq(bs, LAMBDA b : b.userId = userId), "createdAt")

Mem_createBookmark(bs, nid, insertBookmark, t) ==
    LET bookmark == Spread(insertBookmark, [id |-> nid + 1, createdAt |-> t])
    IN  [bookmarks |-> Append(bs, bookmark), nextId |-> nid + 1, bookmark |-> bookmark]

Db_createBookmark(bs, nid, insertBookmark, t) ==
    LET bookmark == Spread([id |-> nid + 1, createdAt |-> t], insertBookmark)
    IN  [bookmarks |-> Append(bs, bookmark), nextId |-> nid + 1, bookmark |-> bookmark]

Mem_deleteBookmark_AnyOwner(bs, userId, resourceType, resourceId) ==
    LET bookmark == First(SelectSeq(bs, LAMBDA b :
                        /\ b.resourceType = resourceType
                        /\ b.resourceId = resourceId))
    IN  IF bookmark # <<>> THEN RemoveId(bs, bookmark[1].id) ELSE bs

\* the first match is deleted
Mem_deleteBookmark(bs, userId, resourceType, resourceId) ==
    LET bookmark == First(SelectSeq(bs, LAMBDA b :
                        /\ b.userId = userId
                        /\ b.resourceType = resourceType
                        /\ b.resourceId = resourceId))
    IN  IF bookmark # <<>> THEN RemoveId(bs, bookmark[1].id) ELSE bs

\* every match is deleted
Db_deleteBookmark(bs, userId, resourceType, resourceId) ==
    SelectSeq(bs, LAMBDA b : ~(/\ b.userId = userId
                               /\ b.resourceType = resourceType
                               /\ b.resourceId = resourceId))

getBookmarksByUserId(bs, userId) ==
    IF backend = "mem" THEN Mem_getBookmarksByUserId(bs, userId)
                       ELSE Db_getBookmarksByUserId(bs, userId)

createBookmark(bs, nid, insertBookmark, t) ==
    IF backend = "mem" THEN Mem_createBookmark(bs, nid, insertBookmark, t)
                       ELSE Db_createBookmark(bs, nid, insertBookmark, t)

deleteBookmark(bs, userId, resourceType, resourceId) ==
    IF backend = "mem" THEN Mem_deleteBookmark(bs, userId, resourceType, resourceId)
                       ELSE Db_deleteBookmark(bs, userId, resourceType, resourceId)

----------------------------------------------------------------------------
(* Storage: the comments of an article *)

Mem_getCommentsByArticleId(cs, articleId) ==
    {SortDescBy(SelectSeq(cs, LAMBDA c : c.articleId = articleId), "createdAt")}

Db_getCommentsByArticleId(cs, articleId) ==
    OrderByDesc(SelectSeq(cs, LAMBDA c : c.articleId = articleId), "createdAt")

getCommentsByArticleId(cs, articleId) ==
    IF backend = "mem" THEN Mem_getCommentsByArticleId(cs, articleId)
                       ELSE Db_getCommentsByArticleId(cs, articleId)

----------------------------------------------------------------------------
(* Storage: study resources.  A filter "" stands for an absent one; a      *)
(* description is <<>> (null or not given) or <<text>>.                    *)

\* the titles of the model in the order of String.prototype.localeCompare
Collation ==
    <<"Aptitude", "Geography Notes", "Indian Polity", "Tamil Nadu History", "Zoology">>

localeCompare(a, b) ==
    (CHOOSE i \in DOMAIN Collation : Collation[i] = a)
        - (CHOOSE i \in DOMAIN Collation : Collation[i] = b)

\* one step of a stable sort by title: x goes behind every element whose
\* title does not compare greater than its own
InsertByTitle(sorted, x) ==
    LET k == Cardinality({i \in DOMAIN sorted : localeCompare(sorted[i].title, x.title) <= 0})
    IN  SubSeq(sorted, 1, k) \o <<x>> \o SubSeq(sorted, k + 1, Len(sorted))

RECURSIVE SortByTitle(_)
\* Array.prototype.sort((a, b) => a.title.localeCompare(b.title))
SortByTitle(s) ==
    IF s = <<>> THEN <<>>
    ELSE InsertByTitle(SortByTitle(SubSeq(s, 1, Len(s) - 1)), s[Len(s)])

\* the rows the supplied filters keep
MatchingResources(rs, category, subject, examStage) ==
    SelectSeq(rs, LAMBDA r :
        /\ category # "" => r.category = category
        /\ subject # "" => r.subject = subject
        /\ examStage # "" => r.examStage = examStage)

Mem_getTnpscResources_NoStage(rs, category, subject, examStage) ==
    {SortByTitle(MatchingResources(rs, category, subject, ""))}

\* filtered, then sorted by title
Mem_getTnpscResources(rs, category, subject, examStage) ==
    {SortByTitle(MatchingResources(rs, category, subject, examStage))}

\* where and(...conditions), order by created_at desc
Db_getTnpscResources(rs, category, subject, examStage) ==
    OrderByDesc(MatchingResources(rs, category, subject, examStage), "createdAt")

\* description: insertResource.description || null
Mem_createTnpscResource(rs, nid, insertResource, t) ==
    LET resource ==
            Spread(insertResource,
                   [id |-> nid + 1, createdAt |-> t,
                    description |-> IF insertResource.description = <<"">>
                                    THEN <<>> ELSE insertResource.description])
    IN  [resources |-> Append(rs, resource), nextId |-> nid + 1, resource |-> resource]

Db_createTnpscResource(rs, nid, insertResource, t) ==
    LET resource == Spread([id |-> nid + 1, createdAt |-> t], insertResource)
    IN  [resources |-> Append(rs, resource), nextId |-> nid + 1, resource |-> resource]

getTnpscResources(rs, category, subject, examStage) ==
    IF backend = "mem" THEN Mem_getTnpscResources(rs, category, subject, examStage)
                       ELSE Db_getTnpscResources(rs, category, subject, examStage)

createTnpscResource(rs, nid, insertResource, t) ==
    IF backend = "mem" THEN Mem_createTnpscResource(rs, nid, insertResource, t)
                       ELSE Db_createTnpscResource(rs, nid, insertResource, t)

----------------------------------------------------------------------------
(* Storage: chat sessions.  userId is <<>> (null) or <<id>>.               *)

Mem_getChatSession(ss, id) == First(SelectSeq(ss, LAMBDA c : c.id = id))

Db_getChatSession(ss, id) == First(SelectSeq(ss, LAMBDA c : c.id = id))

Mem_getChatSessionsByUserId(ss, userId) ==
    {SortDescBy(SelectSeq(ss, LAMBDA c : c.userId = <<userId>>), "createdAt")}

Db_getChatSessionsByUserId(ss, userId) ==
    OrderByDesc(SelectSeq(ss, LAMBDA c : c.userId = <<userId>>), "createdAt")

Mem_createChatSession(ss, nid, insertSession, t) ==
    LET session == [id |-> nid + 1, userId |-> insertSession.userId,
                    messages |-> insertSession.messages, createdAt |-> t]
    IN  [sessions |-> Append(ss, session), nextId |-> nid + 1, session |-> session]

Db_createChatSession(ss, nid, insertSession, t) ==
    LET session == Spread([id |-> nid + 1, createdAt |-> t], insertSession)
    IN  [sessions |-> Append(ss, session), nextId |-> nid + 1, session |-> session]

Mem_updateChatSession_Append(ss, id, messages) ==
    [i \in DOMAIN ss |-> IF ss[i].id = id THEN [ss[i] EXCEPT !.messages = @ \o messages]
                         ELSE ss[i]]

\* this.chatSessions.set(id, { ...session, messages }) when the id is a key
Mem_updateChatSession(ss, id, messages) ==
    [i \in DOMAIN ss |-> IF ss[i].id = id THEN [ss[i] EXCEPT !.messages = messages] ELSE ss[i]]

\* update chat_sessions set messages = messages where id = id
Db_updateChatSession(ss, id, messages) ==
    [i \in DOMAIN ss |-> IF ss[i].id = id THEN [ss[i] EXCEPT !.messages = messages] ELSE ss[i]]

----------------------------------------------------------------------------
(* The storage contract: one call of IStorage given to a MemStorage and to *)
(* a DatabaseStorage.  A call answers the tables it leaves, the ids drawn  *)
(* and the values it may return (more than one where SQL leaves the order  *)
(* of rows open); a Promise<void> returns "void".                          *)

Tables == [users |-> users, articles |-> articles, likes |-> likes,
           comments |-> comments, bookmarks |-> bookmarks,
           resources |-> resources, sessions |-> sessions]

Answer(tables, nid, returns) == [tables |-> tables, nextId |-> nid, returns |-> returns]

Mem_call(T, nid, call, t) ==
    CASE call.op = "getUser" ->
           Answer(T, nid, {Mem_getUser(T.users, call.id)})
      [] call.op = "getUserByUsername" ->
           Answer(T, nid, {Mem_getUserByUsername(T.users, call.username)})
      [] call.op = "getUserByEmail" ->
           Answer(T, nid, {Mem_getUserByEmail(T.users, call.email)})
      [] call.op = "createUser" ->
           LET c == Mem_createUser(T.users, nid, call.user, t)
           IN  Answer([T EXCEPT !.users = c.users], c.nextId, {c.user})
      [] call.op = "getArticles" ->
           Answer(T, nid, Mem_getArticles(T.articles, call.category, call.limit, call.offset))
      [] call.op = "getArticleById" ->
           Answer(T, nid, {Mem_getArticleById(T.articles, call.id)})
      [] call.op = "getArticleByUrl" ->
           Answer(T, nid, {Mem_getArticleByUrl(T.articles, call.url)})
      [] call.op = "createArticle" ->
           LET c == Mem_createArticle(T.articles, nid, call.article, t)
           IN  Answer([T EXCEPT !.articles = c.articles], c.nextId, {c.article})
      [] call.op = "updateArticleLikes" ->
           Answer([T EXCEPT !.articles = Mem_updateArticleLikes(T.articles, call.id, call.likes)],
                  nid, {"void"})
      [] call.op = "getCommentsByArticleId" ->
           Answer(T, nid, Mem_getCommentsByArticleId(T.comments, call.articleId))
      [] call.op = "createComment" ->
           LET c == Mem_createComment(T.comments, nid, call.comment, t)
           IN  Answer([T EXCEPT !.comments = c.comments], c.nextId, {c.comment})
      [] call.op = "getLikeByUserAndArticle" ->
           Answer(T, nid, {Mem_getLikeByUserAndArticle(T.likes, call.userId, call.articleId)})
      [] call.op = "createLike" ->
           LET c == Mem_createLike(T.likes, nid, call.userId, call.articleId, t)
           IN  Answer([T EXCEPT !.likes = c.likes], c.nextId, {c.like})
      [] call.op = "deleteLike" ->
           Answer([T EXCEPT !.likes = Mem_deleteLike(T.likes, call.userId, call.articleId)],
                  nid, {"void"})
      [] call.op = "getBookmarksByUserId" ->
           Answer(T, nid, Mem_getBookmarksByUserId(T.bookmarks, call.userId))
      [] call.op = "createBookmark" ->
           LET c == Mem_createBookmark(T.bookmarks, nid, call.bookmark, t)
           IN  Answer([T EXCEPT !.bookmarks = c.bookmarks], c.nextId, {c.bookmark})
      [] call.op = "deleteBookmark" ->
           Answer([T EXCEPT !.bookmarks =
                       Mem_deleteBookmark(T.bookmarks, call.userId,
                                          call.resourceType, call.resourceId)],
                  nid, {"void"})
      [] call.op = "getTnpscResources" ->
           Answer(T, nid, Mem_getTnpscResources(T.resources, call.category,
                                                call.subject, call.examStage))
      [] call.op = "createTnpscResource" ->
           LET c == Mem_createTnpscResource(T.resources, nid, call.resource, t)
           IN  Answer([T EXCEPT !.resources = c.resources], c.nextId, {c.resource})
      [] call.op = "getChatSession" ->
           Answer(T, nid, {Mem_getChatSession(T.sessions, call.id)})
      [] call.op = "getChatSessionsByUserId" ->
           Answer(T, nid, Mem_getChatSessionsByUserId(T.sessions, call.userId))
      [] call.op = "createChatSession" ->
           LET c == Mem_createChatSession(T.sessions, nid, call.session, t)
           IN  Answer([T EXCEPT !.sessions = c.sessions], c.nextId, {c.session})
      [] call.op = "updateChatSession" ->
           Answer([T EXCEPT !.sessions = Mem_updateChatSession(T.sessions, call.id, call.messages)],
                  nid, {"void"})

Db_call(T, nid, call, t) ==
    CASE call.op = "getUser" ->
           Answer(T, nid, {Db_getUser(T.users, call.id)})
      [] call.op = "getUserByUsername" ->
           Answer(T, nid, {Db_getUserByUsername(T.users, call.username)})
      [] call.op = "getUserByEmail" ->
           Answer(T, nid, {Db_getUserByEmail(T.users, call.email)})
      [] call.op = "createUser" ->
           LET c == Db_createUser(T.users, nid, call.user, t)
           IN  Answer([T EXCEPT !.users = c.users], c.nextId, {c.user})
      [] call.op = "getArticles" ->
           Answer(T, nid, Db_getArticles(T.articles, call.category, call.limit, call.offset))
      [] call.op = "getArticleById" ->
           Answer(T, nid, {Db_getArticleById(T.articles, call.id)})
      [] call.op = "getArticleByUrl" ->
           Answer(T, nid, {Db_getArticleByUrl(T.articles, call.url)})
      [] call.op = "createArticle" ->
           LET c == Db_createArticle(T.articles, nid, call.article, t)
           IN  Answer([T EXCEPT !.articles = c.articles], c.nextId, {c.article})
      [] call.op = "updateArticleLikes" ->
           Answer([T EXCEPT !.articles = Db_updateArticleLikes(T.articles, call.id, call.likes)],
                  nid, {"void"})
      [] call.op = "getCommentsByArticleId" ->
           Answer(T, nid, Db_getCommentsByArticleId(T.comments, call.articleId))
      [] call.op = "createComment" ->
           LET c == Db_createComment(T.comments, nid, call.comment, t)
           IN  Answer([T EXCEPT !.comments = c.comments], c.nextId, {c.comment})
      [] call.op = "getLikeByUserAndArticle" ->
           Answer(T, nid, {Db_getLikeByUserAndArticle(T.likes, call.userId, call.articleId)})
      [] call.op = "createLike" ->
           LET c == Db_createLike(T.likes, nid, call.userId, call.articleId, t)
           IN  Answer([T EXCEPT !.likes = c.likes], c.nextId, {c.like})
      [] call.op = "deleteLike" ->
           Answer([T EXCEPT !.likes = Db_deleteLike(T.likes, call.userId, call.articleId)],
                  nid, {"void"})
      [] call.op = "getBookmarksByUserId" ->
           Answer(T, nid, Db_getBookmarksByUserId(T.bookmarks, call.userId))
      [] call.op = "createBookmark" ->
           LET c == Db_createBookmark(T.bookmarks, nid, call.bookmark, t)
           IN  Answer([T EXCEPT !.bookmarks = c.bookmarks], c.nextId, {c.bookmark})
      [] call.op = "deleteBookmark" ->
           Answer([T EXCEPT !.bookmarks =
                       Db_deleteBookmark(T.bookmarks, call.userId,
                                         call.resourceType, call.resourceId)],
                  nid, {"void"})
      [] call.op = "getTnpscResources" ->
           Answer(T, nid, Db_getTnpscResources(T.resources, call.category,
                                               call.subject, call.examStage))
      [] call.op = "createTnpscResource" ->
           LET c == Db_createTnpscResource(T.resources, nid, call.resource, t)
           IN  Answer([T EXCEPT !.resources = c.resources], c.nextId, {c.resource})
      [] call.op = "getChatSession" ->
           Answer(T, nid, {Db_getChatSession(T.sessions, call.id)})
      [] call.op = "getChatSessionsByUserId" ->
           Answer(T, nid, Db_getChatSessionsByUserId(T.sessions, call.userId))
      [] call.op = "createChatSession" ->
           LET c == Db_createChatSession(T.sessions, nid, call.session, t)
           IN  Answer([T EXCEPT !.sessions = c.sessions], c.nextId, {c.session})
      [] call.op = "updateChatSession" ->
           Answer([T EXCEPT !.sessions = Db_updateChatSession(T.sessions, call.id, call.messages)],
                  nid, {"void"})

\* the same call on both storages, drawing the same ids at the same time
StorageCall(call) ==
    LET m == Mem_call(Tables, nextId, call, now)
        d == Db_call(twin, nextId, call, now)
    IN  /\ backend = "mem"
        /\ users' = m.tables.users
        /\ articles' = m.tables.articles
        /\ likes' = m.tables.likes
        /\ comments' = m.tables.comments
        /\ bookmarks' = m.tables.bookmarks
        /\ resources' = m.tables.resources
        /\ sessions' = m.tables.sessions
        /\ twin' = d.tables
        /\ nextId' = m.nextId
        /\ \E returned \in m.returns :
              last' = Call(call.op, call, [mem |-> returned, db |-> d.returns],
                           [mem |-> Tables, db |-> twin])
        /\ UNCHANGED <<backend, now, inflight, registered>>

StorageCallFrom(calls) == \E call \in calls : StorageCall(call) /\ nextId' <= MaxContractIds

----------------------------------------------------------------------------
(* NewsApiService.getTopHeadlines: reply is what the provider answers.     *)
(* An article of the provider is its title, url and publishedAt (in days); *)
(* description, content, image and source are carried along unread.        *)

ProviderAnswer(batch) ==
    [fetched |-> TRUE, ok |-> TRUE, status |-> "ok", articles |-> batch]

ProviderFailures ==
    {[ProviderAnswer(<<>>) EXCEPT !.fetched = FALSE],
     [ProviderAnswer(<<>>) EXCEPT !.ok = FALSE],
     [ProviderAnswer(<<>>) EXCEPT !.status = "error"]}

\* without an API key the service answers one sample article, an answer of
\* the same shape as the provider's
getTopHeadlines(reply) ==
    IF ~reply.fetched
    THEN [threw |-> TRUE, error |-> "fetch failed", articles |-> <<>>]
    ELSE IF ~reply.ok
    THEN [threw |-> TRUE, error |-> "NewsAPI error: response not ok", articles |-> <<>>]
    ELSE IF reply.status = "error"
    THEN [threw |-> TRUE, error |-> "NewsAPI error: status error", articles |-> <<>>]
    ELSE [threw |-> FALSE, error |-> "", articles |-> reply.articles]

----------------------------------------------------------------------------
(* GET /api/news *)

\* what the loop over newsData.articles holds: storage and the response list
BatchState(as, nid, out) == [articles |-> as, nextId |-> nid, out |-> out]

\* one round of the loop; failing: createArticle throws for this article
StoreOne(st, apiArticle, category, failing, t) ==
    IF apiArticle.title # "" /\ apiArticle.url # ""
    THEN LET existing == getArticleByUrl(st.articles, apiArticle.url)
         IN  IF existing = <<>>
             THEN IF failing
                  THEN st
                  ELSE LET c == createArticle(st.articles, st.nextId,
                                   [title |-> apiArticle.title,
                                    url |-> apiArticle.url,
                                    category |-> IF category # "" THEN category ELSE "general",
                                    publishedAt |-> apiArticle.publishedAt], t)
                       IN  BatchState(c.articles, c.nextId, Append(st.out, c.article))
             ELSE BatchState(st.articles, st.nextId, Append(st.out, existing[1]))
    ELSE st

RECURSIVE StoreBatch(_, _, _, _, _)
\* for (const apiArticle of newsData.articles) { ... }, the first n articles
StoreBatch(st, batch, n, ctx, t) ==
    IF n = 0 THEN st
    ELSE StoreOne(StoreBatch(st, batch, n - 1, ctx, t), batch[n],
                  ctx.category, n \in ctx.failing, t)

NewsResponse(status, message, list) ==
    [status |-> status, message |-> message, articles |-> list]

newsHandler_FetchFirst(as, nid, storedArticles, category, reply, failing, t) ==
    LET newsData == getTopHeadlines(reply)
        st == StoreBatch(BatchState(as, nid, <<>>), newsData.articles, Len(newsData.articles),
                         [category |-> category, failing |-> failing], t)
    IN  IF newsData.threw
        THEN [articles |-> as, nextId |-> nid, fetched |-> TRUE,
              resp |-> NewsResponse(500, "Failed to fetch news articles", <<>>)]
        ELSE [articles |-> st.articles, nextId |-> st.nextId, fetched |-> TRUE,
              resp |-> NewsResponse(200, "", st.out)]

\* the handler after storage.getArticles returned storedArticles
newsHandler(as, nid, storedArticles, category, reply, failing, t) ==
    IF Len(storedArticles) > 0
    THEN [articles |-> as, nextId |-> nid, fetched |-> FALSE,
          resp |-> NewsResponse(200, "", storedArticles)]
    ELSE LET newsData == getTopHeadlines(reply)
         IN  IF newsData.threw
             THEN [articles |-> as, nextId |-> nid, fetched |-> TRUE,
                   resp |-> NewsResponse(500, "Failed to fetch news articles", <<>>)]
             ELSE LET st == StoreBatch(BatchState(as, nid, <<>>), newsData.articles,
                                       Len(newsData.articles),
                                       [category |-> category, failing |-> failing], t)
                  IN  [articles |-> st.articles, nextId |-> st.nextId, fetched |-> TRUE,
                       resp |-> NewsResponse(200, "", st.out)]

\* createArticle can fail only against the database
FailingSets(reply) ==
    IF backend = "db" THEN {{}} \cup {{i} : i \in 1 .. Len(reply.articles)} ELSE {{}}

NewsHandler(category, pageNum, limitNum, reply, failing) ==
    \E storedArticles \in getArticles(articles, category, limitNum, (pageNum - 1) * limitNum) :
        LET r == newsHandler(articles, nextId, storedArticles, category, reply, failing, now)
        IN  /\ articles' = r.articles
            /\ nextId' = r.nextId
            /\ last' = Call("news",
                            [category |-> category, page |-> pageNum, limit |-> limitNum],
                            r.resp,
                            [articles |-> articles, storedArticles |-> storedArticles,
                             fetched |-> r.fetched,
                             reply |-> IF r.fetched THEN <<reply>> ELSE <<>>])
            /\ UNCHANGED <<backend, aside, now, users, likes, comments, bookmarks, registered>>

GetNewsFrom(categories, pages, limits, replies) ==
    \E category \in categories, pageNum \in pages, limitNum \in limits, reply \in replies :
        \E failing \in FailingSets(reply) :
            NewsHandler(category, pageNum, limitNum, reply, failing)

(* What the clients and the provider send *)

NewsCategories == {"", "all", "technology"}
Pages == {1, 2}
Limits == {1, DefaultLimit}

Budget == [title |-> "Budget", url |-> "https://n/1", publishedAt |-> 1]
Monsoon == [title |-> "Monsoon", url |-> "https://n/2", publishedAt |-> 2]
Cricket == [title |-> "Cricket", url |-> "https://n/3", publishedAt |-> 2]
Untitled == [title |-> "", url |-> "https://n/4", publishedAt |-> 1]

Batches ==
    {<<>>, <<Budget, Monsoon>>, <<Budget, Budget>>, <<Untitled, Cricket>>}

GetNews ==
    GetNewsFrom(NewsCategories, Pages, Limits,
                ProviderFailures \cup {ProviderAnswer(b) : b \in Batches})

NextNews == GetNews

SpecNews == Init /\ [][NextNews]_vars

----------------------------------------------------------------------------
(* AIService.  reply is what the provider answers to the one request of a  *)
(* call of openrouter.chat.completions.create: a message content, or an    *)
(* error.  A text is the sequence of its words; the texts of the model are *)
(* shorter than the 500 and 5000 character cuts of the handlers.  calls is *)
(* the sequence of external calls a function or handler has made.          *)

AiAnswer(content) == [ok |-> TRUE, content |-> content, error |-> ""]

AiFailure(error) == [ok |-> FALSE, content |-> "", error |-> error]

\* await openrouter.chat.completions.create({...}); message?.content
completions(reply) ==
    IF reply.ok
    THEN [threw |-> FALSE, content |-> reply.content, error |-> ""]
    ELSE [threw |-> TRUE, content |-> "", error |-> reply.error]

AiResult(threw, error, value, calls) ==
    [threw |-> threw, error |-> error, value |-> value, calls |-> calls]

summarizeText_Retry(text, reply) ==
    LET response == completions(reply)
        again == completions(reply)
    IN  IF ~ response.threw
        THEN AiResult(FALSE, "", <<IF response.content # "" THEN response.content
                                   ELSE "Unable to generate summary">>, <<"openrouter">>)
        ELSE IF again.threw
        THEN AiResult(TRUE, "Failed to summarize text", <<>>, <<"openrouter", "openrouter">>)
        ELSE AiResult(FALSE, "", <<again.content>>, <<"openrouter", "openrouter">>)

\* maxLength only shapes the prompt and max_tokens of the request
summarizeText(text, reply) ==
    LET response == completions(reply)
    IN  IF response.threw
        THEN AiResult(TRUE, "Failed to summarize text", <<>>, <<"openrouter">>)
        ELSE AiResult(FALSE, "", <<IF response.content # "" THEN response.content
                                   ELSE "Unable to generate summary">>, <<"openrouter">>)

toLowerCase(source) ==
    CASE source = "The Hindu" -> "the hindu"
      [] source = "Sun TV News" -> "sun tv news"
      [] OTHER -> source

\* trustedSources.some((trusted) => source.toLowerCase().includes(trusted))
IsTrusted(source) == toLowerCase(source) \in {"the hindu"}

\* JSON.parse of a message content; an absent field is an empty sequence,
\* a confidence is in hundredths
JSONParse(content) ==
    CASE content = "{}" ->
           [threw |-> FALSE, isReal |-> <<>>, confidence |-> <<>>, explanation |-> <<>>]
      [] content = "{\"isReal\":true,\"confidence\":2,\"explanation\":\"consistent\"}" ->
           [threw |-> FALSE, isReal |-> <<TRUE>>, confidence |-> <<200>>,
            explanation |-> <<"consistent">>]
      [] content = "{\"isReal\":false,\"confidence\":0}" ->
           [threw |-> FALSE, isReal |-> <<FALSE>>, confidence |-> <<0>>, explanation |-> <<>>]
      [] OTHER ->
           [threw |-> TRUE, isReal |-> <<>>, confidence |-> <<>>, explanation |-> <<>>]

Verdict(isReal, confidence, explanation, sourceCredibility) ==
    [isReal |-> isReal, confidence |-> confidence, explanation |-> explanation,
     sourceCredibility |-> sourceCredibility]

detectFakeNews(text, source, reply) ==
    LET sourceCredibility == IF source # "" /\ IsTrusted(source) THEN "high" ELSE "medium"
        response == completions(reply)
        result == JSONParse(IF response.content # "" THEN response.content ELSE "{}")
    IN  IF sourceCredibility = "high"
        THEN AiResult(FALSE, "",
                      <<Verdict(TRUE, 95, "This news comes from a trusted and verified source.",
                                "high")>>, <<>>)
        ELSE IF response.threw \/ result.threw
        THEN AiResult(TRUE, "Failed to analyze news authenticity", <<>>, <<"openrouter">>)
        ELSE AiResult(FALSE, "",
                      <<Verdict(result.isReal = <<TRUE>>,
                                Max(0, Min(100, IF result.confidence \in {<<>>, <<0>>}
                                                THEN 50 ELSE result.confidence[1])),
                                IF result.explanation \in {<<>>, <<"">>}
                                THEN "Analysis completed" ELSE result.explanation[1],
                                sourceCredibility)>>,
                      <<"openrouter">>)

\* context only shapes the user message of the request
chatWithAI(message, context, reply) ==
    LET response == completions(reply)
    IN  IF response.threw
        THEN AiResult(TRUE, "Failed to get AI response", <<>>, <<"openrouter">>)
        ELSE AiResult(FALSE, "",
                      <<IF response.content # "" THEN response.content
                        ELSE "I'm sorry, I couldn't process your request.">>,
                      <<"openrouter">>)

----------------------------------------------------------------------------
(* The summarize, fakecheck and chat routes.  sent is the sequence of      *)
(* responses a handler sends.                                              *)

AiResponse(status, message, payload) ==
    [status |-> status, message |-> message, payload |-> payload]

Handled(sent, calls) == [sent |-> sent, calls |-> calls]

\* text.trim() is empty
IsBlank(text) == \A n \in DOMAIN text : text[n] = " "

\* text.substring(0, 500) + '...'
Excerpt(text) == Append(text, "...")

\* const summary = await aiService.summarizeText(text), answered or caught
Summarized(text, reply, extracted, failure, before) ==
    LET summary == summarizeText(text, reply)
    IN  Handled(<<IF summary.threw
                  THEN AiResponse(500, failure, <<>>)
                  ELSE AiResponse(200, "", <<[summary |-> summary.value[1],
                                             extractedText |-> extracted]>>)>>,
                before \o summary.calls)

\* POST /api/summarize/text
summarizeTextHandler(body, reply) ==
    IF body.text = <<>>
    THEN Handled(<<AiResponse(400, "Text is required", <<>>)>>, <<>>)
    ELSE Summarized(body.text, reply, <<>>, "Failed to summarize text", <<>>)

\* html.replace(/<[^>]*>/g, ' ').replace(/\s+/g, ' ').trim()
StripTags(html) == SelectSeq(html, LAMBDA word : word \notin {"<p>", "</p>", " "})

\* POST /api/summarize/url; page is what fetch(url) answers
summarizeUrlHandler(body, page, reply) ==
    IF body.url = ""
    THEN Handled(<<AiResponse(400, "URL is required", <<>>)>>, <<>>)
    ELSE IF ~ page.fetched
    THEN Handled(<<AiResponse(500, "Failed to summarize URL content", <<>>)>>, <<"fetch">>)
    ELSE IF ~ page.ok
    THEN Handled(<<AiResponse(400, "Failed to fetch content from URL", <<>>)>>, <<"fetch">>)
    ELSE LET text == StripTags(page.html)
         IN  Summarized(text, reply, Excerpt(text), "Failed to summarize URL content",
                        <<"fetch">>)

\* the text the handler summarizes while pdfParse is commented out
PdfText == <<"PDF parsing temporarily disabled. Please check server configuration.">>

\* POST /api/summarize/pdf; file: multer found an uploaded file
summarizePdfHandler(file, reply) ==
    IF ~ file
    THEN Handled(<<AiResponse(400, "PDF file is required", <<>>)>>, <<>>)
    ELSE IF IsBlank(PdfText)
    THEN Handled(<<AiResponse(400, "No text found in PDF", <<>>)>>, <<>>)
    ELSE Summarized(PdfText, reply, Excerpt(PdfText), "Failed to summarize PDF", <<>>)

\* url.match(/(?:youtube\.com\/watch\?v=|youtu\.be\/)([^&\n?#]+)/)?.[1]
VideoId(url) ==
    CASE url = "https://youtu.be/v1" -> <<"v1">>
      [] url = "https://youtube.com/watch?v=v2&t=1" -> <<"v2">>
      [] OTHER -> <<>>

\* POST /api/summarize/youtube; transcript is what fetchTranscript answers
summarizeYoutubeHandler(body, transcript, reply) ==
    IF body.url = ""
    THEN Handled(<<AiResponse(400, "YouTube URL is required", <<>>)>>, <<>>)
    ELSE IF VideoId(body.url) = <<>>
    THEN Handled(<<AiResponse(400, "Invalid YouTube URL", <<>>)>>, <<>>)
    ELSE IF ~ transcript.ok
    THEN Handled(<<AiResponse(500, "Failed to get YouTube transcript or summarize video",
                              <<>>)>>, <<"youtube">>)
    ELSE IF IsBlank(transcript.items)
    THEN Handled(<<AiResponse(400, "No transcript available for this video", <<>>)>>,
                 <<"youtube">>)
    ELSE Summarized(transcript.items, reply, Excerpt(transcript.items),
                    "Failed to get YouTube transcript or summarize video", <<"youtube">>)

\* POST /api/fakecheck
fakecheckHandler(body, reply) ==
    IF body.text = <<>>
    THEN Handled(<<AiResponse(400, "Text is required", <<>>)>>, <<>>)
    ELSE LET result == detectFakeNews(body.text, body.source, reply)
         IN  Handled(<<IF result.threw
                       THEN AiResponse(500, "Failed to check news authenticity", <<>>)
                       ELSE AiResponse(200, "", result.value)>>,
                     result.calls)

getChatSession(ss, id) ==
    IF backend = "mem" THEN Mem_getChatSession(ss, id) ELSE Db_getChatSession(ss, id)

createChatSession(ss, nid, insertSession, t) ==
    IF backend = "mem" THEN Mem_createChatSession(ss, nid, insertSession, t)
                       ELSE Db_createChatSession(ss, nid, insertSession, t)

updateChatSession(ss, id, messages) ==
    IF backend = "mem" THEN Mem_updateChatSession(ss, id, messages)
                       ELSE Db_updateChatSession(ss, id, messages)

\* the session is saved when req.user and sessionId are both set
SaveChat(ss, nid, user, body, response, t) ==
    LET session == getChatSession(ss, body.sessionId[1])
        newMessage == [role |-> "user", content |-> body.message, timestamp |-> t]
        aiResponse == [role |-> "assistant", content |-> response, timestamp |-> t]
    IN  IF user = <<>> \/ body.sessionId = <<>>
        THEN [sessions |-> ss, nextId |-> nid]
        ELSE IF session # <<>>
        THEN [sessions |-> updateChatSession(ss, body.sessionId[1],
                                             session[1].messages \o <<newMessage, aiResponse>>),
              nextId |-> nid]
        ELSE LET c == createChatSession(ss, nid, [userId |-> <<user[1].userId>>,
                                                  messages |-> <<newMessage, aiResponse>>], t)
             IN  [sessions |-> c.sessions, nextId |-> c.nextId]

\* POST /api/chat; user is req.user
chatHandler(ss, nid, user, body, reply, t) ==
    LET response == chatWithAI(body.message, body.context, reply)
        answered == [sessions |-> ss, nextId |-> nid]
    IN  IF body.message = ""
        THEN Spread(answered, Handled(<<AiResponse(400, "Message is required", <<>>)>>, <<>>))
        ELSE IF response.threw
        THEN Spread(answered, Handled(<<AiResponse(500, "Failed to get AI response", <<>>)>>,
                                      response.calls))
        ELSE Spread(SaveChat(ss, nid, user, body, response.value[1], t),
                    Handled(<<AiResponse(200, "", <<[response |-> response.value[1]]>>)>>,
                            response.calls))

\* a handler that touches no storage has answered
External(op, body, replies, handled) ==
    /\ last' = Call(op, body, handled.sent, [replies |-> replies, calls |-> handled.calls])
    /\ UNCHANGED <<backend, aside, now, nextId, store, registered>>

SummarizeTextHandler(body, reply) ==
    External("summarize/text", body, [ai |-> reply], summarizeTextHandler(body, reply))

SummarizeUrlHandler(body, page, reply) ==
    External("summarize/url", body, [ai |-> reply, page |-> page],
             summarizeUrlHandler(body, page, reply))

SummarizePdfHandler(file, reply) ==
    External("summarize/pdf", [file |-> file], [ai |-> reply], summarizePdfHandler(file, reply))

SummarizeYoutubeHandler(body, transcript, reply) ==
    External("summarize/youtube", body, [ai |-> reply, transcript |-> transcript],
             summarizeYoutubeHandler(body, transcript, reply))

FakecheckHandler(body, reply) ==
    External("fakecheck", body, [ai |-> reply], fakecheckHandler(body, reply))

\* the handler run with req.user = user
ChatHandlerWith(user, header, body, reply) ==
    LET r == chatHandler(sessions, nextId, user, body, reply, now)
    IN  /\ sessions' = r.sessions
        /\ nextId' = r.nextId
        /\ last' = Call("chat", [header |-> header, body |-> body], r.sent,
                        [replies |-> [ai |-> reply], calls |-> r.calls,
                         user |-> user, sessions |-> sessions])
        /\ UNCHANGED <<backend, now, users, articles, likes, comments, bookmarks, resources,
                       twin, inflight, registered>>

\* the middleware the file defines for routes that work with or without a
\* user: req.user = payload when the token verifies, next() in every case
optionalAuth(header, t) ==
    IF Len(header) < 2 \/ header[2].segments = 0
    THEN <<>>
    ELSE verifyToken(header[2], t).payload

\* app.post("/api/chat", async (req, res) => ...): the route is registered
\* with no middleware, neither authenticateToken nor optionalAuth, so the
\* Authorization header is not read and req.user is not set
ChatHandler(header, body, reply) == ChatHandlerWith(<<>>, header, body, reply)

----------------------------------------------------------------------------
(* The Authorization header is the array header.split(' ') of its parts,   *)
(* empty when the header is absent; a token part of 0 segments is the      *)
(* empty string.                                                           *)

Denied(status, message) ==
    [next |-> FALSE, status |-> status, message |-> message, user |-> <<>>]

authenticateToken_NoVerify(header, t) ==
    IF Len(header) < 2 \/ header[2].segments = 0
    THEN Denied(401, "Access token required")
    ELSE [next |-> TRUE, status |-> 200, message |-> "", user |-> <<header[2].claims>>]

\* the middleware: next() is called with req.user = payload, or a response is sent
authenticateToken(header, t) ==
    IF Len(header) < 2 \/ header[2].segments = 0
    THEN Denied(401, "Access token required")
    ELSE LET payload == verifyToken(header[2], t).payload
         IN  IF payload = <<>>
             THEN Denied(403, "Invalid or expired token")
             ELSE [next |-> TRUE, status |-> 200, message |-> "", user |-> payload]

----------------------------------------------------------------------------
(* POST /api/articles/:id/like *)

LikeResponse(status, message, liked, n) ==
    [status |-> status, message |-> message, liked |-> liked, likes |-> n]

\* the handler, run as userId: the storage it leaves and its response
likeHandler_LikeUnchecked(as, ls, nid, userId, id, t) ==
    LET article == getArticleById(as, id)
        c == createLike(ls, nid, userId, id, t)
    IN  IF article = <<>>
        THEN [articles |-> as, likes |-> c.likes, nextId |-> c.nextId,
              resp |-> LikeResponse(404, "Article not found", FALSE, 0)]
        ELSE [articles |-> updateArticleLikes(as, id, article[1].likes + 1),
              likes |-> c.likes, nextId |-> c.nextId,
              resp |-> LikeResponse(200, "", TRUE, article[1].likes + 1)]

likeHandler(as, ls, nid, userId, id, t) ==
    LET existingLike == getLikeByUserAndArticle(ls, userId, id)
        article == getArticleById(as, id)
    IN  IF article = <<>>
        THEN [articles |-> as, likes |-> ls, nextId |-> nid,
              resp |-> LikeResponse(404, "Article not found", FALSE, 0)]
        ELSE IF existingLike # <<>>
        THEN LET newLikes == Max(0, article[1].likes - 1)
             IN  [articles |-> updateArticleLikes(as, id, newLikes),
                  likes |-> deleteLike(ls, userId, id), nextId |-> nid,
                  resp |-> LikeResponse(200, "", FALSE, newLikes)]
        ELSE LET c == createLike(ls, nid, userId, id, t)
                 newLikes == article[1].likes + 1
             IN  [articles |-> updateArticleLikes(as, id, newLikes),
                  likes |-> c.likes, nextId |-> c.nextId,
                  resp |-> LikeResponse(200, "", TRUE, newLikes)]

LikeHandler(header, id) ==
    LET auth == authenticateToken(header, now)
        r == IF auth.next
             THEN likeHandler(articles, likes, nextId, auth.user[1].userId, id, now)
             ELSE [articles |-> articles, likes |-> likes, nextId |-> nextId,
                   resp |-> LikeResponse(auth.status, auth.message, FALSE, 0)]
    IN  /\ articles' = r.articles
        /\ likes' = r.likes
        /\ nextId' = r.nextId
        /\ last' = Call("like", [header |-> header, id |-> id, user |-> auth.user],
                        r.resp, store)
        /\ UNCHANGED <<backend, aside, now, users, comments, bookmarks, registered>>

----------------------------------------------------------------------------
(* POST /api/articles/:id/comments *)

\* insertCommentSchema.parse: content, articleId and userId are required
insertCommentSchema(data) ==
    IF {"content", "articleId", "userId"} \subseteq DOMAIN data
    THEN [threw |-> FALSE, error |-> "",
          value |-> <<[f \in {"content", "articleId", "userId"} |-> data[f]]>>]
    ELSE [threw |-> TRUE, error |-> "Required", value |-> <<>>]

CommentResponse(status, message, comment) ==
    [status |-> status, message |-> message, comment |-> comment]

commentHandler_BodyWins(cs, nid, userId, id, body, t) ==
    LET parsed == insertCommentSchema(Spread([articleId |-> id, userId |-> userId], body))
    IN  IF parsed.threw
        THEN [comments |-> cs, nextId |-> nid,
              resp |-> CommentResponse(400, parsed.error, <<>>)]
        ELSE LET c == createComment(cs, nid, parsed.value[1], t)
             IN  [comments |-> c.comments, nextId |-> c.nextId,
                  resp |-> CommentResponse(200, "", <<c.comment>>)]

commentHandler(cs, nid, userId, id, body, t) ==
    LET parsed == insertCommentSchema(Spread(body, [articleId |-> id, userId |-> userId]))
    IN  IF parsed.threw
        THEN [comments |-> cs, nextId |-> nid,
              resp |-> CommentResponse(400, parsed.error, <<>>)]
        ELSE LET c == createComment(cs, nid, parsed.value[1], t)
             IN  [comments |-> c.comments, nextId |-> c.nextId,
                  resp |-> CommentResponse(200, "", <<c.comment>>)]

CommentHandler(header, id, body) ==
    LET auth == authenticateToken(header, now)
        r == IF auth.next
             THEN commentHandler(comments, nextId, auth.user[1].userId, id, body, now)
             ELSE [comments |-> comments, nextId |-> nextId,
                   resp |-> CommentResponse(auth.status, auth.message, <<>>)]
    IN  /\ comments' = r.comments
        /\ nextId' = r.nextId
        /\ last' = Call("comment",
                        [header |-> header, id |-> id, body |-> body, user |-> auth.user],
                        r.resp, store)
        /\ UNCHANGED <<backend, aside, now, users, articles, likes, bookmarks, registered>>

----------------------------------------------------------------------------
(* GET, POST, DELETE /api/bookmarks *)

\* insertBookmarkSchema.parse: userId, resourceType, resourceId, title are required
insertBookmarkSchema(data) ==
    IF {"userId", "resourceType", "resourceId", "title"} \subseteq DOMAIN data
    THEN [threw |-> FALSE, error |-> "",
          value |-> <<[f \in {"userId", "resourceType", "resourceId", "title"} |-> data[f]]>>]
    ELSE [threw |-> TRUE, error |-> "Required", value |-> <<>>]

BookmarkResponse(status, message, list) ==
    [status |-> status, message |-> message, bookmarks |-> list]

GetBookmarksHandler(header) ==
    LET auth == authenticateToken(header, now)
    IN  /\ \E list \in IF auth.next
                       THEN getBookmarksByUserId(bookmarks, auth.user[1].userId)
                       ELSE {<<>>} :
              last' = Call("getBookmarks", [header |-> header, user |-> auth.user],
                           IF auth.next
                           THEN BookmarkResponse(200, "", list)
                           ELSE BookmarkResponse(auth.status, auth.message, <<>>),
                           store)
        /\ UNCHANGED <<backend, aside, now, nextId, store, registered>>

postBookmarkHandler(bs, nid, userId, body, t) ==
    LET parsed == insertBookmarkSchema(Spread(body, [userId |-> userId]))
    IN  IF parsed.threw
        THEN [bookmarks |-> bs, nextId |-> nid,
              resp |-> BookmarkResponse(400, parsed.error, <<>>)]
        ELSE LET c == createBookmark(bs, nid, parsed.value[1], t)
             IN  [bookmarks |-> c.bookmarks, nextId |-> c.nextId,
                  resp |-> BookmarkResponse(200, "", <<c.bookmark>>)]

PostBookmarkHandler(header, body) ==
    LET auth == authenticateToken(header, now)
        r == IF auth.next
             THEN postBookmarkHandler(bookmarks, nextId, auth.user[1].userId, body, now)
             ELSE [bookmarks |-> bookmarks, nextId |-> nextId,
                   resp |-> BookmarkResponse(auth.status, auth.message, <<>>)]
    IN  /\ bookmarks' = r.bookmarks
        /\ nextId' = r.nextId
        /\ last' = Call("postBookmark", [header |-> header, body |-> body, user |-> auth.user],
                        r.resp, store)
        /\ UNCHANGED <<backend, aside, now, users, articles, likes, comments, registered>>

DeleteBookmarkHandler(header, body) ==
    LET auth == authenticateToken(header, now)
    IN  /\ bookmarks' = IF auth.next
                        THEN deleteBookmark(bookmarks, auth.user[1].userId,
                                            body.resourceType, body.resourceId)
                        ELSE bookmarks
        /\ last' = Call("deleteBookmark",
                        [header |-> header, body |-> body, user |-> auth.user],
                        IF auth.next
                        THEN BookmarkResponse(200, "Bookmark removed", <<>>)
                        ELSE BookmarkResponse(auth.status, auth.message, <<>>),
                        store)
        /\ UNCHANGED <<backend, aside, now, nextId, users, articles, likes, comments, registered>>

----------------------------------------------------------------------------
(* Requests served at the same time.  A handler gives way at each await:   *)
(* a step of a request is one call of the storage (or of bcrypt, or of the *)
(* provider) with the code that follows it up to the next call.  inflight  *)
(* holds, in the order of arrival, what each request has read so far, and  *)
(* its response once it is answered (pc = "done").                         *)

Answered(request, response) == [request EXCEPT !.pc = "done", !.resp = <<response>>]

\* history: every request that arrived so far is answered
AllAnswered == \A k \in DOMAIN inflight : inflight[k].pc = "done"

\* the request at position i takes a step to become entry
Proceed(i, entry) == inflight' = [inflight EXCEPT ![i] = entry]

(* POST /api/auth/register, step by step *)

\* insertUserSchema.parse(req.body), then register is called
RegisterArrives(body) ==
    LET parsed == insertUserSchema(body)
        request == [op |-> "register", pc |-> "getUserByEmail", body |-> body,
                    hashedPassword |-> <<>>, resp |-> <<>>]
    IN  /\ inflight' = Append(inflight,
                              IF parsed.threw
                              THEN Answered(request, AuthResponse(400, parsed.error, <<>>, <<>>))
                              ELSE request)
        /\ UNCHANGED <<backend, now, nextId, store, twin, registered, last>>

\* const existingUser = await storage.getUserByEmail(userData.email)
RegisterChecksEmail(i) ==
    /\ inflight[i].op = "register"
    /\ inflight[i].pc = "getUserByEmail"
    /\ Proceed(i, IF getUserByEmail(users, inflight[i].body.email) # <<>>
                  THEN Answered(inflight[i],
                                AuthResponse(400, "User with this email already exists",
                                             <<>>, <<>>))
                  ELSE [inflight[i] EXCEPT !.pc = "getUserByUsername"])
    /\ UNCHANGED <<backend, now, nextId, store, twin, registered, last>>

\* const existingUsername = await storage.getUserByUsername(userData.username)
RegisterChecksUsername(i) ==
    /\ inflight[i].op = "register"
    /\ inflight[i].pc = "getUserByUsername"
    /\ Proceed(i, IF getUserByUsername(users, inflight[i].body.username) # <<>>
                  THEN Answered(inflight[i],
                                AuthResponse(400, "Username already taken", <<>>, <<>>))
                  ELSE [inflight[i] EXCEPT !.pc = "hashPassword"])
    /\ UNCHANGED <<backend, now, nextId, store, twin, registered, last>>

\* const hashedPassword = await this.hashPassword(userData.password)
RegisterHashes(i, salt) ==
    /\ inflight[i].op = "register"
    /\ inflight[i].pc = "hashPassword"
    /\ Proceed(i, [inflight[i] EXCEPT
                      !.pc = "createUser",
                      !.hashedPassword = <<hashPassword(inflight[i].body.password, salt)>>])
    /\ UNCHANGED <<backend, now, nextId, store, twin, registered, last>>

\* const user = await storage.createUser(...), the token and the response
RegisterCreates(i) ==
    /\ inflight[i].op = "register"
    /\ inflight[i].pc = "createUser"
    /\ LET body == inflight[i].body
           c == createUser(users, nextId,
                           Spread(body, [password |-> inflight[i].hashedPassword[1]]), now)
           token == generateToken([userId |-> c.user.id, username |-> c.user.username], now)
       IN  /\ users' = c.users
           /\ nextId' = c.nextId
           /\ Proceed(i, Answered(inflight[i],
                                  AuthResponse(200, "", <<userWithoutPassword(c.user)>>,
                                               <<token>>)))
           /\ registered' = registered \cup
                               {[username |-> body.username, email |-> body.email,
                                 password |-> body.password, userId |-> c.user.id]}
    /\ UNCHANGED <<backend, now, articles, likes, comments, bookmarks, resources,
                   sessions, twin, last>>

(* POST /api/articles/:id/like, step by step *)

\* authenticateToken runs at once; the handler then calls the storage
LikeArrives(header, id) ==
    LET auth == authenticateToken(header, now)
        request == [op |-> "like", pc |-> "getLikeByUserAndArticle", user |-> auth.user,
                    id |-> id, existingLike |-> <<>>, article |-> <<>>, resp |-> <<>>,
                    alone |-> AllAnswered]
    IN  /\ inflight' = Append(inflight,
                              IF auth.next
                              THEN request
                              ELSE Answered(request,
                                            LikeResponse(auth.status, auth.message, FALSE, 0)))
        /\ UNCHANGED <<backend, now, nextId, store, twin, registered, last>>

\* const existingLike = await storage.getLikeByUserAndArticle(userId, id)
LikeReadsLike(i) ==
    /\ inflight[i].op = "like"
    /\ inflight[i].pc = "getLikeByUserAndArticle"
    /\ Proceed(i, [inflight[i] EXCEPT
                      !.pc = "getArticleById",
                      !.existingLike = getLikeByUserAndArticle(likes, inflight[i].user[1].userId,
                                                               inflight[i].id)])
    /\ UNCHANGED <<backend, now, nextId, store, twin, registered, last>>

\* const article = await storage.getArticleById(id), and the branch taken
LikeReadsArticle(i) ==
    /\ inflight[i].op = "like"
    /\ inflight[i].pc = "getArticleById"
    /\ LET article == getArticleById(articles, inflight[i].id)
       IN  Proceed(i, IF article = <<>>
                      THEN Answered(inflight[i], LikeResponse(404, "Article not found", FALSE, 0))
                      ELSE [inflight[i] EXCEPT
                               !.article = article,
                               !.pc = IF inflight[i].existingLike # <<>>
                                      THEN "deleteLike" ELSE "createLike"])
    /\ UNCHANGED <<backend, now, nextId, store, twin, registered, last>>

\* await storage.deleteLike(userId, id)
LikeDeletes(i) ==
    /\ inflight[i].op = "like"
    /\ inflight[i].pc = "deleteLike"
    /\ likes' = deleteLike(likes, inflight[i].user[1].userId, inflight[i].id)
    /\ Proceed(i, [inflight[i] EXCEPT !.pc = "updateArticleLikes"])
    /\ UNCHANGED <<backend, now, nextId, users, articles, comments, bookmarks, resources,
                   sessions, twin, registered, last>>

\* await storage.createLike(userId, id)
LikeCreates(i) ==
    /\ inflight[i].op = "like"
    /\ inflight[i].pc = "createLike"
    /\ LET c == createLike(likes, nextId, inflight[i].user[1].userId, inflight[i].id, now)
       IN  /\ likes' = c.likes
           /\ nextId' = c.nextId
    /\ Proceed(i, [inflight[i] EXCEPT !.pc = "updateArticleLikes"])
    /\ UNCHANGED <<backend, now, users, articles, comments, bookmarks, resources,
                   sessions, twin, registered, last>>

LikeUpdates_NoClamp(i) ==
    /\ inflight[i].op = "like"
    /\ inflight[i].pc = "updateArticleLikes"
    /\ LET unlike == inflight[i].existingLike # <<>>
           newLikes == IF unlike
                       THEN inflight[i].article[1].likes - 1
                       ELSE inflight[i].article[1].likes + 1
       IN  /\ articles' = updateArticleLikes(articles, inflight[i].id, newLikes)
           /\ Proceed(i, Answered(inflight[i], LikeResponse(200, "", ~ unlike, newLikes)))
    /\ UNCHANGED <<backend, now, nextId, users, likes, comments, bookmarks, resources,
                   sessions, twin, registered, last>>

\* newLikes from the article read before; await storage.updateArticleLikes
LikeUpdates(i) ==
    /\ inflight[i].op = "like"
    /\ inflight[i].pc = "updateArticleLikes"
    /\ LET unlike == inflight[i].existingLike # <<>>
           newLikes == IF unlike
                       THEN Max(0, inflight[i].article[1].likes - 1)
                       ELSE inflight[i].article[1].likes + 1
       IN  /\ articles' = updateArticleLikes(articles, inflight[i].id, newLikes)
           /\ Proceed(i, Answered(inflight[i], LikeResponse(200, "", ~ unlike, newLikes)))
    /\ UNCHANGED <<backend, now, nextId, users, likes, comments, bookmarks, resources,
                   sessions, twin, registered, last>>

----------------------------------------------------------------------------
(* GET /api/news, step by step *)

\* the articles of the batch after position k that the loop does not skip
Storable(batch, k) ==
    {n \in (k + 1) .. Len(batch) : batch[n].title # "" /\ batch[n].url # ""}

\* the loop moves on to its next article, or ends with res.json({ articles })
NextArticle(entry) ==
    LET rest == Storable(entry.newsData, entry.k)
    IN  IF rest = {}
        THEN Answered(entry, NewsResponse(200, "", entry.out))
        ELSE [entry EXCEPT !.k = CHOOSE n \in rest : \A m \in rest : n <= m,
                           !.pc = "getArticleByUrl"]

\* the query is parsed; missed and failed are history: the positions of the
\* batch whose url this request looked up in vain, and those whose
\* createArticle threw
NewsArrives(category, pageNum, limitNum) ==
    /\ inflight' = Append(inflight,
                          [op |-> "news", pc |-> "getArticles", category |-> category,
                           page |-> pageNum, limit |-> limitNum, newsData |-> <<>>, k |-> 0,
                           out |-> <<>>, missed |-> {}, failed |-> {}, resp |-> <<>>])
    /\ UNCHANGED <<backend, now, nextId, store, twin, registered, last>>

\* const storedArticles = await storage.getArticles(...), answered when not empty
NewsLists(i) ==
    /\ inflight[i].op = "news"
    /\ inflight[i].pc = "getArticles"
    /\ \E storedArticles \in getArticles(articles, inflight[i].category, inflight[i].limit,
                                          (inflight[i].page - 1) * inflight[i].limit) :
          Proceed(i, IF Len(storedArticles) > 0
                     THEN Answered(inflight[i], NewsResponse(200, "", storedArticles))
                     ELSE [inflight[i] EXCEPT !.pc = "getTopHeadlines"])
    /\ UNCHANGED <<backend, now, nextId, store, twin, registered, last>>

\* const newsData = await newsApiService.getTopHeadlines(...), the loop begins
NewsFetches(i, reply) ==
    /\ inflight[i].op = "news"
    /\ inflight[i].pc = "getTopHeadlines"
    /\ LET newsData == getTopHeadlines(reply)
       IN  Proceed(i, IF newsData.threw
                      THEN Answered(inflight[i],
                                    NewsResponse(500, "Failed to fetch news articles", <<>>))
                      ELSE NextArticle([inflight[i] EXCEPT !.newsData = newsData.articles]))
    /\ UNCHANGED <<backend, now, nextId, store, twin, registered, last>>

\* const existing = await storage.getArticleByUrl(apiArticle.url)
NewsChecksUrl(i) ==
    /\ inflight[i].op = "news"
    /\ inflight[i].pc = "getArticleByUrl"
    /\ LET apiArticle == inflight[i].newsData[inflight[i].k]
           existing == getArticleByUrl(articles, apiArticle.url)
       IN  Proceed(i, IF existing = <<>>
                      THEN [inflight[i] EXCEPT !.pc = "createArticle",
                                               !.missed = @ \cup {inflight[i].k}]
                      ELSE NextArticle([inflight[i] EXCEPT !.out = Append(@, existing[1])]))
    /\ UNCHANGED <<backend, now, nextId, store, twin, registered, last>>

\* const article = await storage.createArticle({...}) inside its try/catch;
\* failing: createArticle throws
NewsCreates_Rethrow(i, failing) ==
    /\ inflight[i].op = "news"
    /\ inflight[i].pc = "createArticle"
    /\ LET apiArticle == inflight[i].newsData[inflight[i].k]
           category == inflight[i].category
           c == createArticle(articles, nextId,
                              [title |-> apiArticle.title,
                               url |-> apiArticle.url,
                               category |-> IF category # "" THEN category ELSE "general",
                               publishedAt |-> apiArticle.publishedAt], now)
       IN  IF failing
           THEN /\ Proceed(i, Answered([inflight[i] EXCEPT !.failed = @ \cup {inflight[i].k}],
                                       NewsResponse(500, "Failed to fetch news articles", <<>>)))
                /\ UNCHANGED <<articles, nextId>>
           ELSE /\ articles' = c.articles
                /\ nextId' = c.nextId
                /\ Proceed(i, NextArticle([inflight[i] EXCEPT !.out = Append(@, c.article)]))
    /\ UNCHANGED <<backend, now, users, likes, comments, bookmarks, resources, sessions,
                   twin, registered, last>>

NewsCreates(i, failing) ==
    /\ inflight[i].op = "news"
    /\ inflight[i].pc = "createArticle"
    /\ LET apiArticle == inflight[i].newsData[inflight[i].k]
           category == inflight[i].category
           c == createArticle(articles, nextId,
                              [title |-> apiArticle.title,
                               url |-> apiArticle.url,
                               category |-> IF category # "" THEN category ELSE "general",
                               publishedAt |-> apiArticle.publishedAt], now)
       IN  IF failing
           THEN /\ Proceed(i, NextArticle([inflight[i] EXCEPT
                                              !.failed = @ \cup {inflight[i].k}]))
                /\ UNCHANGED <<articles, nextId>>
           ELSE /\ articles' = c.articles
                /\ nextId' = c.nextId
                /\ Proceed(i, NextArticle([inflight[i] EXCEPT !.out = Append(@, c.article)]))
    /\ UNCHANGED <<backend, now, users, likes, comments, bookmarks, resources, sessions,
                   twin, registered, last>>

(* What the clients of the authenticated routes send *)

MaxIds == 4

UserName(userId) == IF userId = 1 THEN "ann" ELSE "bob"

\* a token the service issued to the user at time 0
TokenOf(userId) == generateToken([userId |-> userId, username |-> UserName(userId)], 0)

ExpiredToken == generateToken([userId |-> 1, username |-> "ann"], 0 - TokenTTL)
ForgedToken == JwtSign([userId |-> 1, username |-> "ann"], OtherSecret, 0)
GarbageToken == [TokenOf(1) EXCEPT !.segments = 1]
EmptyToken == [TokenOf(1) EXCEPT !.segments = 0]

Bearer(token) == <<"Bearer", token>>

UserHeaders == {Bearer(TokenOf(u)) : u \in UserIds}

TokenlessHeaders == {<<>>, <<"Bearer">>, Bearer(EmptyToken)}

RejectedHeaders == {Bearer(ExpiredToken), Bearer(ForgedToken), Bearer(GarbageToken)}

ArticleIds == {1, 2}

Resources == {"r1", "r2"}

BookmarkBodies ==
    {[resourceType |-> "tnpsc_material", resourceId |-> r, title |-> "Notes"] : r \in Resources}

BookmarkKeys == {[resourceType |-> "tnpsc_material", resourceId |-> r] : r \in Resources}

CommentBodies == {[content |-> "Nice"], [content |-> "Nice", userId |-> 2], [userId |-> 2]}

LikeFrom(headers, ids) ==
    \E header \in headers, id \in ids :
        LikeHandler(header, id) /\ nextId' <= MaxIds

CommentFrom(headers, ids, bodies) ==
    \E header \in headers, id \in ids, body \in bodies :
        CommentHandler(header, id, body) /\ nextId' <= MaxIds

GetBookmarksFrom(headers) == \E header \in headers : GetBookmarksHandler(header)

PostBookmarkFrom(headers, bodies) ==
    \E header \in headers, body \in bodies :
        PostBookmarkHandler(header, body) /\ nextId' <= MaxIds

DeleteBookmarkFrom(headers, bodies) ==
    \E header \in headers, body \in bodies : DeleteBookmarkHandler(header, body)

\* a first page of news that fills the empty storage
SeedNews ==
    GetNewsFrom({""}, {1}, {DefaultLimit},
                {ProviderAnswer(<<Budget, Monsoon>>), ProviderAnswer(<<Monsoon>>)})

(* Likes *)

ToggleLike == LikeFrom(UserHeaders \cup {<<>>, Bearer(ExpiredToken)}, ArticleIds)

NextLikes == SeedNews \/ ToggleLike \/ Tick

SpecLikes == Init /\ [][NextLikes]_vars

(* Bookmarks *)

BookmarkHeaders == UserHeaders \cup {<<>>, Bearer(ForgedToken)}

GetBookmarks == GetBookmarksFrom(BookmarkHeaders)

PostBookmark ==
    PostBookmarkFrom(BookmarkHeaders, BookmarkBodies \cup {[resourceId |-> "r1"]})

DeleteBookmark == DeleteBookmarkFrom(BookmarkHeaders, BookmarkKeys)

NextBookmarks == GetBookmarks \/ PostBookmark \/ DeleteBookmark

SpecBookmarks == Init /\ [][NextBookmarks]_vars

(* All the authenticated routes, asked with every kind of header *)

AnyHeaders == {Bearer(TokenOf(1))} \cup TokenlessHeaders \cup RejectedHeaders

\* a first page of news of one article
ApiSeed == GetNewsFrom({""}, {1}, {DefaultLimit}, {ProviderAnswer(<<Budget>>)})

ApiLike == LikeFrom(AnyHeaders, {1})

ApiComment == CommentFrom(AnyHeaders, {1}, {[content |-> "Nice"], [userId |-> 2]})

ApiGetBookmarks == GetBookmarksFrom(AnyHeaders \cup UserHeaders)

ApiPostBookmark ==
    PostBookmarkFrom(AnyHeaders,
                     {[resourceType |-> "tnpsc_material", resourceId |-> "r1",
                       title |-> "Notes"],
                      [resourceId |-> "r1"]})

ApiDeleteBookmark ==
    DeleteBookmarkFrom(AnyHeaders,
                       {[resourceType |-> "tnpsc_material", resourceId |-> "r1"]})

NextApi ==
    \/ ApiSeed
    \/ ApiLike
    \/ ApiComment
    \/ ApiGetBookmarks
    \/ ApiPostBookmark
    \/ ApiDeleteBookmark

SpecApi == Init /\ [][NextApi]_vars

(* The storage contract, called on both storages *)

ContractInit == Init /\ backend = "mem"

ContractUser == [username |-> "ann", email |-> "ann", password |-> "h"]

ContractArticle ==
    [title |-> "Budget", url |-> "https://n/1", category |-> "technology", publishedAt |-> 1]

ContractBookmark ==
    [userId |-> 1, resourceType |-> "tnpsc_material", resourceId |-> "r1", title |-> "Notes"]

ContractResources ==
    {[title |-> "Zoology", category |-> "book", subject |-> "Science",
      examStage |-> "prelims", description |-> d] : d \in {<<>>, <<"">>}}

UserCalls ==
    {[op |-> "getUser", id |-> 1],
     [op |-> "getUserByUsername", username |-> "ann"],
     [op |-> "getUserByEmail", email |-> "ann"],
     [op |-> "createUser", user |-> ContractUser]}

ArticleCalls ==
    {[op |-> "getArticles", category |-> c, limit |-> DefaultLimit, offset |-> 0] :
        c \in {"", "technology"}}
    \cup {[op |-> "getArticleById", id |-> 1],
          [op |-> "getArticleByUrl", url |-> "https://n/1"],
          [op |-> "createArticle", article |-> ContractArticle],
          [op |-> "updateArticleLikes", id |-> 1, likes |-> 3]}

CommentCalls ==
    {[op |-> "getCommentsByArticleId", articleId |-> 1],
     [op |-> "createComment",
      comment |-> [content |-> "Nice", articleId |-> 1, userId |-> 1]]}

LikeCalls ==
    {[op |-> o, userId |-> 1, articleId |-> 1] :
        o \in {"getLikeByUserAndArticle", "createLike", "deleteLike"}}

BookmarkCalls ==
    {[op |-> "getBookmarksByUserId", userId |-> 1],
     [op |-> "createBookmark", bookmark |-> ContractBookmark],
     [op |-> "deleteBookmark", userId |-> 1,
      resourceType |-> "tnpsc_material", resourceId |-> "r1"]}

ResourceCalls ==
    {[op |-> "getTnpscResources", category |-> c, subject |-> "", examStage |-> e] :
        c \in {"", "book"}, e \in {"", "prelims"}}
    \cup {[op |-> "createTnpscResource", resource |-> r] : r \in ContractResources}

SessionCalls ==
    {[op |-> "getChatSession", id |-> 1],
     [op |-> "getChatSessionsByUserId", userId |-> 1],
     [op |-> "createChatSession", session |-> [userId |-> <<1>>, messages |-> <<"hi">>]],
     [op |-> "updateChatSession", id |-> 1, messages |-> <<"hi", "hello">>]}

ContractCalls ==
    UserCalls \cup ArticleCalls \cup CommentCalls \cup LikeCalls
        \cup BookmarkCalls \cup ResourceCalls \cup SessionCalls

CallUsers == StorageCallFrom(UserCalls)
CallArticles == StorageCallFrom(ArticleCalls)
CallComments == StorageCallFrom(CommentCalls)
CallLikes == StorageCallFrom(LikeCalls)
CallBookmarks == StorageCallFrom(BookmarkCalls)
CallResources == StorageCallFrom(ResourceCalls)
CallSessions == StorageCallFrom(SessionCalls)

NextContract ==
    \/ CallUsers
    \/ CallArticles
    \/ CallComments
    \/ CallLikes
    \/ CallBookmarks
    \/ CallResources
    \/ CallSessions
    \/ Tick

SpecContract == ContractInit /\ [][NextContract]_vars

(* Comments and bookmarks posted with a body that names another owner *)

OwnComment ==
    CommentFrom(UserHeaders \cup {<<>>}, {1},
                {[content |-> "Nice", userId |-> 2, articleId |-> 2], [userId |-> 1]})

OwnBookmark ==
    PostBookmarkFrom(UserHeaders \cup {<<>>},
                     {[resourceType |-> "tnpsc_material", resourceId |-> "r1", title |-> "Notes",
                       userId |-> 1]})

NextOwners ==
    \/ OwnComment
    \/ OwnBookmark

SpecOwners == Init /\ [][NextOwners]_vars

(* Chat sessions: the storage calls, and the chat handler run for a given req.user *)

ChatMessage(role, content) == [role |-> role, content |-> content, timestamp |-> 0]

SessionStoreCalls ==
    {[op |-> "createChatSession", session |-> [userId |-> <<1>>, messages |-> <<>>]],
     [op |-> "createChatSession",
      session |-> [userId |-> <<2>>, messages |-> <<ChatMessage("user", "hello")>>]],
     [op |-> "updateChatSession", id |-> 1, messages |-> <<ChatMessage("user", "bye")>>],
     [op |-> "updateChatSession", id |-> 2, messages |-> <<>>]}

StoreSessions == StorageCallFrom(SessionStoreCalls)

\* the handler as it runs once a middleware has set req.user from the token
ChatBody ==
    \E user \in {<<>>, verifyToken(TokenOf(1), now).payload},
       sessionId \in {<<>>, <<1>>, <<2>>}, reply \in {AiAnswer("summary"), AiFailure("timeout")} :
        /\ ChatHandlerWith(user, IF user = <<>> THEN <<>> ELSE Bearer(TokenOf(1)),
                           [message |-> "hi", context |-> "", sessionId |-> sessionId], reply)
        /\ nextId' <= MaxContractIds
        /\ \A n \in DOMAIN sessions' : Len(sessions'[n].messages) <= MaxMessages

NextSessions ==
    \/ StoreSessions
    \/ ChatBody

SpecSessions == Init /\ [][NextSessions]_vars

(* Study resources: GET /api/tnpsc/resources and createTnpscResource *)

ResourcesResponse(status, message, list) ==
    [status |-> status, message |-> message, resources |-> list]

\* a filter the query string does not carry is undefined, here ""
ResourcesHandler(category, subject, examStage) ==
    /\ \E list \in getTnpscResources(resources, category, subject, examStage) :
          last' = Call("resources",
                       [category |-> category, subject |-> subject, examStage |-> examStage],
                       ResourcesResponse(200, "", list), store)
    /\ UNCHANGED <<backend, now, nextId, store, twin, inflight, registered>>

CreateResourceCall(insertResource) ==
    LET c == createTnpscResource(resources, nextId, insertResource, now)
    IN  /\ resources' = c.resources
        /\ nextId' = c.nextId
        /\ last' = Call("createTnpscResource", insertResource, c.resource, store)
        /\ UNCHANGED <<backend, now, users, articles, likes, comments, bookmarks,
                       sessions, twin, inflight, registered>>

ResourceCategories == {"", "book", "notes"}
ResourceSubjects == {"", "History", "Science"}
ResourceStages == {"", "prelims", "mains"}

NewResources ==
    {[title |-> "Zoology", category |-> "book", subject |-> "Science",
      examStage |-> "prelims", description |-> <<"guide">>],
     [title |-> "Aptitude", category |-> "notes", subject |-> "History",
      examStage |-> "mains", description |-> <<>>]}

GetResources ==
    \E category \in ResourceCategories, subject \in ResourceSubjects,
       examStage \in ResourceStages :
        ResourcesHandler(category, subject, examStage)

CreateResource ==
    \E r \in NewResources : CreateResourceCall(r) /\ nextId' <= MaxContractIds

NextResources == GetResources \/ CreateResource \/ Tick

SpecResources == Init /\ [][NextResources]_vars

(* Register calls served at the same time *)

RaceBodies == [username : Idents, email : Idents, password : {"pw1"}]

RegisterStarts == \E body \in RaceBodies : Len(inflight) < MaxRequests /\ RegisterArrives(body)

RegisterEmailStep == \E i \in DOMAIN inflight : RegisterChecksEmail(i)

RegisterUsernameStep == \E i \in DOMAIN inflight : RegisterChecksUsername(i)

RegisterHashStep == \E i \in DOMAIN inflight, salt \in {"saltA"} : RegisterHashes(i, salt)

RegisterCreateStep == \E i \in DOMAIN inflight : RegisterCreates(i)

NextRegisterRace ==
    \/ RegisterStarts
    \/ RegisterEmailStep
    \/ RegisterUsernameStep
    \/ RegisterHashStep
    \/ RegisterCreateStep

SpecRegisterRace == Init /\ [][NextRegisterRace]_vars

(* Like toggles served at the same time, on one seeded article *)

LikeStarts ==
    \E header \in UserHeaders \cup {<<>>}, id \in {1, 2} :
        Len(inflight) < MaxRequests /\ LikeArrives(header, id)

LikeReadLikeStep == \E i \in DOMAIN inflight : LikeReadsLike(i)

LikeReadArticleStep == \E i \in DOMAIN inflight : LikeReadsArticle(i)

LikeDeleteStep == \E i \in DOMAIN inflight : LikeDeletes(i)

LikeCreateStep == \E i \in DOMAIN inflight : LikeCreates(i)

LikeUpdateStep == \E i \in DOMAIN inflight : LikeUpdates(i)

NextLikeRace ==
    \/ ApiSeed
    \/ LikeStarts
    \/ LikeReadLikeStep
    \/ LikeReadArticleStep
    \/ LikeDeleteStep
    \/ LikeCreateStep
    \/ LikeUpdateStep

SpecLikeRace == Init /\ [][NextLikeRace]_vars

(* GET /api/news requests served at the same time *)

RaceBatches == {<<Budget, Monsoon>>, <<Untitled, Budget>>}

NewsStarts ==
    \E category \in {"", "technology"} :
        Len(inflight) < MaxRequests /\ NewsArrives(category, 1, DefaultLimit)

NewsListStep == \E i \in DOMAIN inflight : NewsLists(i)

NewsFetchStep ==
    \E i \in DOMAIN inflight :
        \E reply \in ProviderFailures \cup {ProviderAnswer(b) : b \in RaceBatches} :
            NewsFetches(i, reply)

NewsCheckUrlStep == \E i \in DOMAIN inflight : NewsChecksUrl(i)

NewsCreateStep ==
    \E i \in DOMAIN inflight :
        \E failing \in IF backend = "db" THEN BOOLEAN ELSE {FALSE} :
            NewsCreates(i, failing) /\ nextId' <= MaxIds

NextNewsRace ==
    \/ NewsStarts
    \/ NewsListStep
    \/ NewsFetchStep
    \/ NewsCheckUrlStep
    \/ NewsCreateStep

SpecNewsRace == Init /\ [][NextNewsRace]_vars

(* The routes that call a provider *)

Texts == {<<>>, <<"rain", "today">>}

AiReplies ==
    {AiAnswer("summary"), AiAnswer(""), AiAnswer("{}"),
     AiAnswer("{\"isReal\":true,\"confidence\":2,\"explanation\":\"consistent\"}"),
     AiAnswer("{\"isReal\":false,\"confidence\":0}"),
     AiFailure("timeout"), AiFailure("429 rate limited")}

PageReplies ==
    {[fetched |-> FALSE, ok |-> FALSE, html |-> <<>>],
     [fetched |-> TRUE, ok |-> FALSE, html |-> <<>>],
     [fetched |-> TRUE, ok |-> TRUE, html |-> <<"<p>", "rain", " ", "today", "</p>">>],
     [fetched |-> TRUE, ok |-> TRUE, html |-> <<>>]}

TranscriptReplies ==
    {[ok |-> FALSE, items |-> <<>>], [ok |-> TRUE, items |-> <<>>],
     [ok |-> TRUE, items |-> <<" ">>], [ok |-> TRUE, items |-> <<"rain", "today">>]}

SummarizeText ==
    \E text \in Texts, reply \in AiReplies : SummarizeTextHandler([text |-> text], reply)

SummarizeUrl ==
    \E url \in {"", "https://n/1"}, page \in PageReplies, reply \in AiReplies :
        SummarizeUrlHandler([url |-> url], page, reply)

SummarizePdf == \E file \in BOOLEAN, reply \in AiReplies : SummarizePdfHandler(file, reply)

SummarizeYoutube ==
    \E url \in {"", "https://n/1", "https://youtu.be/v1", "https://youtube.com/watch?v=v2&t=1"},
       transcript \in TranscriptReplies, reply \in AiReplies :
        SummarizeYoutubeHandler([url |-> url], transcript, reply)

Fakecheck ==
    \E text \in Texts, source \in {"", "The Hindu", "blog"}, reply \in AiReplies :
        FakecheckHandler([text |-> text, source |-> source], reply)

Chat ==
    \E header \in {<<>>, Bearer(TokenOf(1))}, message \in {"", "hi"},
       context \in {"", "monsoon"}, sessionId \in {<<>>, <<1>>}, reply \in AiReplies :
        ChatHandler(header,
                    [message |-> message, context |-> context, sessionId |-> sessionId], reply)

ExternalNews ==
    GetNewsFrom({"", "technology"}, {1}, {DefaultLimit},
                ProviderFailures \cup {ProviderAnswer(<<Budget>>)})

NextExternal ==
    \/ ExternalNews
    \/ SummarizeText
    \/ SummarizeUrl
    \/ SummarizePdf
    \/ SummarizeYoutube
    \/ Fakecheck
    \/ Chat

SpecExternal == Init /\ [][NextExternal]_vars

----------------------------------------------------------------------------
(* Properties of the auth flow, checked under SpecAuth *)

StoredWithUsername(ident) == {u \in Range(users) : u.username = ident}

StoredWithEmail(ident) == {u \in Range(users) : u.email = ident}

RegisteredAs(userId) == {e \in registered : e.userId = userId}

InvalidCredentials == AuthResponse(401, "Invalid credentials", <<>>, <<>>)

LoginWithBothFields ==
    last.op = "login" /\ last.req.username # "" /\ last.req.password # ""

\* what Verify yields for the token of the latest response, at time t
VerifiedAt(t) == verifyToken(last.resp.token[1], t)

\* C1: a Login with the username and password of a successful Register
\* succeeds, and its token, verified at any time of its 7-day window, yields
\* the userId that Register returned and the username it was given.
C1_RegisterThenLogin ==
    last.op = "login" =>
        \A e \in registered :
            (e.username = last.req.username /\ e.password = last.req.password) =>
                /\ last.resp.status = 200
                /\ last.resp.token # <<>>
                /\ last.resp.token[1].claims.iat = now
                /\ last.resp.token[1].claims.exp = now + TokenTTL
                /\ \A t \in now .. (now + TokenTTL - 1) :
                      /\ VerifiedAt(t).payload # <<>>
                      /\ VerifiedAt(t).payload[1].userId = e.userId
                      /\ VerifiedAt(t).payload[1].username = e.username

\* the second registered user logs in with what they registered with
C1_Witness ==
    /\ last.op = "login"
    /\ last.resp.status = 200
    /\ \E e \in registered :
          /\ e.userId = 2
          /\ e.username = last.req.username
          /\ e.password = last.req.password
          /\ VerifiedAt(now).payload = <<last.resp.token[1].claims>>
          /\ last.resp.token[1].claims.userId = 2

\* C2: a Register whose email or username is that of a stored user is
\* answered 400 with no user and no token, and the stored users are the
\* same after the call as before it.
C2_DuplicateRegisterFails ==
    (/\ last.op = "register"
     /\ \E u \in Range(last.pre) :
           u.email = last.req.email \/ u.username = last.req.username)
    => /\ last.resp.status = 400
       /\ last.resp.user = <<>>
       /\ last.resp.token = <<>>
       /\ users = last.pre

\* a Register with a fresh email and a taken username was refused
C2_Witness ==
    /\ last.op = "register"
    /\ "password" \in DOMAIN last.req
    /\ \E u \in Range(last.pre) : u.username = last.req.username
    /\ \A u \in Range(last.pre) : u.email # last.req.email
    /\ last.resp.status = 400
    /\ last.resp.message = "Username already taken"
    /\ users = last.pre

\* C3: a Login (both fields given) with a stored username and a password
\* other than the one registered, and a Login with an identifier that is
\* no stored username and no stored email, get one and the same response:
\* status 401, message 'Invalid credentials', nothing else.
C3_LoginFailuresAlike ==
    LoginWithBothFields =>
        LET ident == last.req.username
            unknown == StoredWithUsername(ident) = {} /\ StoredWithEmail(ident) = {}
            wrongPassword == \E e \in registered :
                                /\ e.username = ident
                                /\ e.password # last.req.password
        IN  (unknown \/ wrongPassword) => last.resp = InvalidCredentials

\* a stored username with a wrong password, answered as an unknown user is
C3_Witness ==
    /\ LoginWithBothFields
    /\ \E e \in registered :
          e.username = last.req.username /\ e.password # last.req.password
    /\ \E other \in Idents :
          StoredWithUsername(other) = {} /\ StoredWithEmail(other) = {}
    /\ last.resp = InvalidCredentials

TokenChecksOut(token, t) ==
    /\ token.segments = 3
    /\ token.sig = Hmac(token.claims, jwtSecret)
    /\ t < token.claims.exp

\* C8: verifyToken does not throw, whatever the token; it returns the
\* token's claims when the token is well formed, signed under the service's
\* secret and not expired, and null otherwise.
C8_VerifyNeverThrows ==
    last.op = "verify" =>
        /\ ~last.resp.threw
        /\ last.resp.payload =
              IF TokenChecksOut(last.req, now) THEN <<last.req.claims>> ELSE <<>>

\* a token signed under the service's secret and expired got null
C8_Witness ==
    /\ last.op = "verify"
    /\ last.req.segments = 3
    /\ last.req.sig = Hmac(last.req.claims, jwtSecret)
    /\ last.req.claims.exp <= now
    /\ ~last.resp.threw
    /\ last.resp.payload = <<>>

\* C9: the user of a successful Register or Login response has every field
\* of the stored user but "password", each with the stored value.
C9_NoPasswordInResponse ==
    (last.op \in {"register", "login"} /\ last.resp.status = 200) =>
        /\ "password" \notin DOMAIN last.resp.user[1]
        /\ \E u \in Range(users) :
              /\ u.id = last.resp.user[1].id
              /\ DOMAIN last.resp.user[1] = (DOMAIN u) \ {"password"}
              /\ \A f \in DOMAIN last.resp.user[1] : last.resp.user[1][f] = u[f]
        /\ DOMAIN last.resp.token[1].claims = {"userId", "username", "iat", "exp"}

\* a successful Login returned id, username, email and createdAt only
C9_Witness ==
    /\ last.op = "login"
    /\ last.resp.status = 200
    /\ DOMAIN last.resp.user[1] = {"id", "username", "email", "createdAt"}
    /\ \E u \in Range(users) :
          u.id = last.resp.user[1].id /\ "password" \in DOMAIN u

\* C10: when the identifier of a Login (both fields given) is a stored
\* username, the Login succeeds exactly when the password is the one that
\* user registered with, and then user and token are that user's, also when
\* the identifier is another user's email.
C10_UsernameBeforeEmail ==
    LoginWithBothFields =>
        \A a \in StoredWithUsername(last.req.username) :
            /\ last.resp.status = 200 <=>
                  \E e \in RegisteredAs(a.id) : e.password = last.req.password
            /\ last.resp.status = 200 =>
                  /\ last.resp.user[1].id = a.id
                  /\ last.resp.token[1].claims.userId = a.id
                  /\ last.resp.token[1].claims.username = a.username
            /\ last.resp.status # 200 => last.resp = InvalidCredentials

\* the identifier is A's username and B's email; B's password is refused
C10_Witness ==
    /\ LoginWithBothFields
    /\ \E a \in StoredWithUsername(last.req.username) :
       \E b \in StoredWithEmail(last.req.username) :
          /\ a.id # b.id
          /\ \E e \in RegisteredAs(b.id) : e.password = last.req.password
          /\ \A e \in RegisteredAs(a.id) : e.password # last.req.password
    /\ last.resp.status = 401

----------------------------------------------------------------------------
(* Properties of the like toggle, checked under SpecLikes *)

ArticleLikes(as, id) == getArticleById(as, id)[1].likes

\* the last call was a like-toggle served for a user
ToggleServed(call) ==
    /\ call.op = "like"
    /\ call.req.user # <<>>
    /\ call.resp.status = 200

\* the last call made a like of an article the user had not liked
LikedFresh ==
    /\ ToggleServed(last)
    /\ getArticleById(last.pre[2], last.req.id) # <<>>
    /\ getLikeByUserAndArticle(last.pre[3], last.req.user[1].userId, last.req.id) = <<>>

\* C4: when a user who has not liked an existing article sends two
\* like-toggle requests for it in a row, the second leaves the article's like
\* count at the value it had before the first, and leaves no Like record of
\* that user for that article.
C4_LikeThenUnlikeRestores ==
    [][(/\ LikedFresh
        /\ last' # last
        /\ ToggleServed(last')
        /\ last'.req.user = last.req.user
        /\ last'.req.id = last.req.id)
       => /\ last.resp.liked
          /\ ~ last'.resp.liked
          /\ last'.resp.likes = ArticleLikes(last.pre[2], last.req.id)
          /\ ArticleLikes(articles', last.req.id) = ArticleLikes(last.pre[2], last.req.id)
          /\ \A l \in Range(likes') :
                ~ (l.userId = last.req.user[1].userId /\ l.articleId = last.req.id)]_vars

\* an unlike was served: the Like record the user had is gone and the count
\* is one less than before the unlike
C4_Witness ==
    /\ ToggleServed(last)
    /\ ~ last.resp.liked
    /\ getLikeByUserAndArticle(last.pre[3], last.req.user[1].userId, last.req.id) # <<>>
    /\ getLikeByUserAndArticle(likes, last.req.user[1].userId, last.req.id) = <<>>
    /\ ArticleLikes(articles, last.req.id) + 1 = ArticleLikes(last.pre[2], last.req.id)

----------------------------------------------------------------------------
(* Properties of the article listing, checked under SpecNews *)

\* the last call listed the stored articles of one category
ListedByCategory ==
    /\ last.op = "news"
    /\ last.req.category \notin {"", "all"}

\* C5: the listing storage.getArticles returns for a category other than
\* 'all' holds only stored articles of that category, in descending order of
\* publishedAt.
C5_CategoryFilterSorted ==
    ListedByCategory =>
        /\ \A i \in 1 .. Len(last.pre.storedArticles) :
              /\ last.pre.storedArticles[i].category = last.req.category
              /\ last.pre.storedArticles[i] \in Range(last.pre.articles)
        /\ IsDescBy(last.pre.storedArticles, "publishedAt")

\* a listing of two articles stored oldest first, from a storage that also
\* holds an article of another category
C5_Witness ==
    /\ ListedByCategory
    /\ Len(last.pre.storedArticles) >= 2
    /\ last.pre.storedArticles[1].publishedAt > last.pre.storedArticles[2].publishedAt
    /\ \E i, j \in 1 .. Len(last.pre.articles) :
          /\ i < j
          /\ last.pre.articles[i] = last.pre.storedArticles[2]
          /\ last.pre.articles[j] = last.pre.storedArticles[1]
    /\ \E a \in Range(last.pre.articles) : a.category # last.req.category

----------------------------------------------------------------------------
(* Properties of the bookmarks, checked under SpecBookmarks *)

SameKey(b, key) ==
    b.resourceType = key.resourceType /\ b.resourceId = key.resourceId

\* a bookmark was created for a user
BookmarkCreated(call) ==
    /\ call.op = "postBookmark"
    /\ call.req.user # <<>>
    /\ call.resp.status = 200

\* a delete was served for a user
BookmarkDeleted(call) ==
    /\ call.op = "deleteBookmark"
    /\ call.req.user # <<>>
    /\ call.resp.status = 200

\* C6: when a user creates a bookmark and next deletes the bookmark of the
\* same (resourceType, resourceId), the list getBookmarksByUserId returns
\* for that user holds no bookmark of that (resourceType, resourceId),
\* whatever bookmarks the user had created before.
C6_CreateThenDeleteRemoves ==
    [][(/\ BookmarkCreated(last)
        /\ last' # last
        /\ BookmarkDeleted(last')
        /\ last'.req.user = last.req.user
        /\ SameKey(last.resp.bookmarks[1], last'.req.body))
       => \A list \in getBookmarksByUserId(bookmarks', last.req.user[1].userId) :
             \A b \in Range(list) : ~ SameKey(b, last'.req.body)]_vars

----------------------------------------------------------------------------
(* Properties of the authenticated routes, checked under SpecApi *)

AuthenticatedOps == {"like", "comment", "getBookmarks", "postBookmark", "deleteBookmark"}

\* the Authorization header carries no token
Tokenless(header) == Len(header) < 2 \/ header[2].segments = 0

\* C7: on the authenticated routes a request without a token is answered 401
\* and a request whose token fails Verify is answered 403, both leaving the
\* storage as it was; any other answer comes from the handler, which ran
\* with req.user the payload Verify returned for the token.
C7_AuthenticatedRoutesGuarded ==
    last.op \in AuthenticatedOps =>
        /\ Tokenless(last.req.header) =>
              /\ last.resp.status = 401
              /\ last.resp.message = "Access token required"
              /\ last.req.user = <<>>
              /\ store = last.pre
        /\ (/\ ~ Tokenless(last.req.header)
            /\ verifyToken(last.req.header[2], now).payload = <<>>) =>
              /\ last.resp.status = 403
              /\ last.resp.message = "Invalid or expired token"
              /\ last.req.user = <<>>
              /\ store = last.pre
        /\ (last.resp.status \notin {401, 403} \/ last.req.user # <<>> \/ store # last.pre) =>
              /\ ~ Tokenless(last.req.header)
              /\ last.req.user # <<>>
              /\ last.req.user = verifyToken(last.req.header[2], now).payload

\* a request with a token of another signer was refused with storage
\* holding what it held
C7_Witness ==
    /\ last.op \in AuthenticatedOps
    /\ last.req.header = Bearer(ForgedToken)
    /\ last.resp.status = 403
    /\ bookmarks # <<>>
    /\ store = last.pre

----------------------------------------------------------------------------
(* Properties of the storage contract, checked under SpecContract *)

ContractOps == {call.op : call \in ContractCalls}

\* C11: every call of the storage contract, given to a MemStorage and to a
\* DatabaseStorage that were given the same calls before, returns in
\* MemStorage a value that DatabaseStorage can return too (ids and
\* timestamps being drawn alike).
C11_StoragesAgree ==
    last.op \in ContractOps => last.resp.mem \in last.resp.db

\* the timestamp a list operation is ordered by
ListOps == {"getArticles", "getCommentsByArticleId", "getBookmarksByUserId",
            "getTnpscResources", "getChatSessionsByUserId"}

Stamp(op) == IF op = "getArticles" THEN "publishedAt" ELSE "createdAt"

\* C12: the list a list operation of the storage contract returns, in
\* MemStorage and in DatabaseStorage, is newest first: of two adjacent
\* elements the earlier has the greater or equal timestamp (publishedAt for
\* articles, createdAt for the others).
C12_ListsNewestFirst ==
    last.op \in ListOps =>
        /\ IsDescBy(last.resp.mem, Stamp(last.op))
        /\ \A list \in last.resp.db : IsDescBy(list, Stamp(last.op))

----------------------------------------------------------------------------
(* Properties of the study resources, checked under SpecResources *)

\* the resource passes every filter that is supplied
PassesFilters(r, filter) ==
    /\ filter.category = "" \/ r.category = filter.category
    /\ filter.subject = "" \/ r.subject = filter.subject
    /\ filter.examStage = "" \/ r.examStage = filter.examStage

\* C13: getTnpscResources returns each stored resource that passes every
\* supplied filter once, and nothing else; an absent filter restricts
\* nothing, so without filters every stored resource is returned.
C13_ResourcesExactlyMatching ==
    last.op = "resources" =>
        /\ Range(last.resp.resources) = {r \in Range(last.pre[6]) : PassesFilters(r, last.req)}
        /\ Len(last.resp.resources) = Cardinality(Range(last.resp.resources))
        /\ (last.req.category = "" /\ last.req.subject = "" /\ last.req.examStage = "") =>
              Len(last.resp.resources) = Len(last.pre[6])

\* two filters are supplied; a stored resource passes the first but not the
\* second and is left out, another passes both and is returned
C13_Witness ==
    /\ last.op = "resources"
    /\ last.req.category # ""
    /\ last.req.examStage # ""
    /\ last.resp.resources # <<>>
    /\ \E r \in Range(last.pre[6]) :
          /\ r.category = last.req.category
          /\ r.examStage # last.req.examStage
          /\ r \notin Range(last.resp.resources)

----------------------------------------------------------------------------
(* Properties of the pages of GET /api/news, checked under SpecNews *)

\* the stored articles a category filter keeps
OfCategory(as, category) ==
    IF category # "" /\ category # "all"
    THEN SelectSeq(as, LAMBDA a : a.category = category)
    ELSE as

\* the filtered articles in a descending order of publishedAt
DescListings(as, category) == OrderByDesc(OfCategory(as, category), "publishedAt")

\* positions from + 1 .. to of the list, as far as it goes
Window(list, from, to) == SubSeq(list, Min(from, Len(list)) + 1, Min(to, Len(list)))

\* C14: the listing of page p with limit l is positions (p-1)*l .. p*l-1 of
\* the filtered, publishedAt-descending article list and never longer than
\* l; the listings of pages p and p+1 of the same category and limit, over
\* the same stored articles, are together positions (p-1)*l .. (p+1)*l-1 of
\* that list: they share no article and follow each other in order.
C14_PagesPartitionListing ==
    [][(last'.op = "news" /\ last' # last) =>
          LET l == last'.req.limit
              p == last'.req.page
              page == last'.pre.storedArticles
              lists == DescListings(last'.pre.articles, last'.req.category)
          IN  /\ Len(page) <= l
              /\ \E list \in lists : page = Window(list, (p - 1) * l, p * l)
              /\ (/\ last.op = "news"
                  /\ last.req.category = last'.req.category
                  /\ last.req.limit = l
                  /\ last.req.page + 1 = p
                  /\ last.pre.articles = last'.pre.articles)
                 => \E list \in lists :
                       last.pre.storedArticles \o page = Window(list, (p - 2) * l, p * l)]_vars

----------------------------------------------------------------------------
(* Properties of Register calls served at the same time, checked under     *)
(* SpecRegisterRace                                                        *)

\* C15: in every state that Register calls reach, served one after another
\* or with their steps interleaved, no two stored users share a username
\* and no two share an email.
C15_UsersUnique ==
    \A i, j \in DOMAIN users :
        i # j => /\ users[i].username # users[j].username
                 /\ users[i].email # users[j].email

----------------------------------------------------------------------------
(* Properties of like toggles served at the same time, checked under       *)
(* SpecLikeRace                                                            *)

\* C16: in every state that like-toggle requests reach, served one after
\* another or overlapping, at most one Like record exists for each
\* (userId, articleId).
C16_OneLikePerUserArticle ==
    \A i, j \in DOMAIN likes :
        i # j => ~ (likes[i].userId = likes[j].userId /\ likes[i].articleId = likes[j].articleId)

\* every toggle arrived after the toggles before it were answered
OneAtATime == \A k \in DOMAIN inflight : inflight[k].op = "like" => inflight[k].alone

\* C16 as amended: like-toggle requests served one at a time leave at most
\* one Like record for each (userId, articleId).
C16_OneLikeWhenOneAtATime == OneAtATime => C16_OneLikePerUserArticle

\* a user's second toggle of an article came after the first was answered
\* and found the Like record the first had stored
C16_Witness ==
    /\ OneAtATime
    /\ \E i, j \in DOMAIN inflight :
          /\ i < j
          /\ inflight[i].op = "like" /\ inflight[j].op = "like"
          /\ inflight[i].pc = "done" /\ inflight[i].resp[1].status = 200
          /\ inflight[i].user = inflight[j].user
          /\ inflight[i].id = inflight[j].id
          /\ inflight[i].existingLike = <<>>
          /\ inflight[j].existingLike # <<>>

\* the Like records stored for the article
LikesOf(ls, articleId) == {i \in DOMAIN ls : ls[i].articleId = articleId}

\* the toggle at position i was served to its end
ToggleDone(i) ==
    /\ inflight[i].op = "like"
    /\ inflight[i].pc = "done"
    /\ inflight[i].resp[1].status = 200

\* the toggles at i and j, of one user on one article, both read the like
\* state and the article before either wrote, and no other toggle of that
\* article was served
ToggledTogether(i, j) ==
    /\ i # j
    /\ ToggleDone(i)
    /\ ToggleDone(j)
    /\ inflight[i].user = inflight[j].user
    /\ inflight[i].id = inflight[j].id
    /\ inflight[i].existingLike = <<>>
    /\ inflight[j].existingLike = <<>>
    /\ inflight[i].article = inflight[j].article
    /\ \A k \in DOMAIN inflight :
          (inflight[k].op = "like" /\ inflight[k].id = inflight[i].id /\ inflight[k].user # <<>>)
             => k \in {i, j}

\* C17: two like-toggle requests of one user on one article that both read
\* the like state and the article before either writes leave the article's
\* likes counter different from the number of Like records stored for the
\* article: one less.
C17_OverlappingTogglesDisagree ==
    \A i, j \in DOMAIN inflight :
        ToggledTogether(i, j) =>
            /\ ArticleLikes(articles, inflight[i].id)
                  # Cardinality(LikesOf(likes, inflight[i].id))
            /\ ArticleLikes(articles, inflight[i].id) + 1
                  = Cardinality(LikesOf(likes, inflight[i].id))

\* both toggles answered liked: true with likes 1, and two Like records are
\* stored for a counter of 1
C17_Witness ==
    \E i, j \in DOMAIN inflight :
        /\ ToggledTogether(i, j)
        /\ inflight[i].resp[1].liked
        /\ inflight[j].resp[1].liked
        /\ ArticleLikes(articles, inflight[i].id) = 1
        /\ Cardinality(LikesOf(likes, inflight[i].id)) = 2

\* the stored articles with the url
WithUrl(as, url) == {n \in DOMAIN as : as[n].url = url}

\* the urls the request looked up in vain and then stored
StoredAfresh(entry) == {entry.newsData[k].url : k \in entry.missed \ entry.failed}

\* both requests looked the url up in vain, both were answered 200 and
\* neither's createArticle threw for it
StoredTogether(i, j, url) ==
    /\ i # j
    /\ inflight[i].op = "news" /\ inflight[j].op = "news"
    /\ inflight[i].pc = "done" /\ inflight[j].pc = "done"
    /\ inflight[i].resp[1].status = 200 /\ inflight[j].resp[1].status = 200
    /\ url \in StoredAfresh(inflight[i])
    /\ url \in StoredAfresh(inflight[j])

KeptPositions(entry) ==
    LET kept == Storable(entry.newsData, 0) \ entry.failed
    IN  CHOOSE f \in [1 .. Cardinality(kept) -> kept] :
            \A a, b \in 1 .. Cardinality(kept) : a < b => f[a] < f[b]

\* C19: a request of GET /api/news for which createArticle threw is answered
\* 200 with one article for every other article of the batch that has a title
\* and a url, in the order of the batch, and each of those is in storage.
C19_FailedStoreSkipped ==
    \A i \in DOMAIN inflight :
        (inflight[i].op = "news" /\ inflight[i].pc = "done" /\ inflight[i].failed # {}) =>
            LET kept == KeptPositions(inflight[i])
                answered == inflight[i].resp[1]
            IN  /\ answered.status = 200
                /\ Len(answered.articles) = Len(kept)
                /\ \A n \in DOMAIN kept :
                      /\ answered.articles[n].url = inflight[i].newsData[kept[n]].url
                      /\ WithUrl(articles, answered.articles[n].url) # {}

\* storing the first article threw and the second article was still stored
C19_Witness ==
    \E i \in DOMAIN inflight :
        /\ inflight[i].op = "news" /\ inflight[i].pc = "done"
        /\ 1 \in inflight[i].failed
        /\ 2 \in inflight[i].missed \ inflight[i].failed
        /\ inflight[i].resp[1].status = 200
        /\ Len(inflight[i].resp[1].articles) = 1

\* the message of the 500 each route answers
FailureMessage ==
    [r \in {"summarize/text", "summarize/url", "summarize/pdf", "summarize/youtube",
            "fakecheck", "chat"} |->
        CASE r = "summarize/text" -> "Failed to summarize text"
          [] r = "summarize/url" -> "Failed to summarize URL content"
          [] r = "summarize/pdf" -> "Failed to summarize PDF"
          [] r = "summarize/youtube" -> "Failed to get YouTube transcript or summarize video"
          [] r = "fakecheck" -> "Failed to check news authenticity"
          [] r = "chat" -> "Failed to get AI response"]

\* the last request called the AI or the transcript provider and the call failed
ProviderFailed ==
    /\ last.op \in DOMAIN FailureMessage
    /\ \/ "openrouter" \in Range(last.pre.calls) /\ ~ last.pre.replies.ai.ok
       \/ "youtube" \in Range(last.pre.calls) /\ ~ last.pre.replies.transcript.ok

\* the last request of GET /api/news called the news provider and the call failed
NewsProviderFailed ==
    /\ last.op = "news"
    /\ last.pre.fetched
    /\ getTopHeadlines(last.pre.reply[1]).threw

Exchange(messages, message, reply) ==
    \E n \in DOMAIN messages :
        /\ n < Len(messages)
        /\ messages[n].role = "user" /\ messages[n].content = message
        /\ messages[n + 1].role = "assistant" /\ messages[n + 1].content = reply

\* the last request of POST /api/chat carried a token that verifies for the
\* user and a sessionId, and was answered with the AI's reply
ChatAnsweredFor(userId) ==
    /\ last.op = "chat"
    /\ last.req.header = Bearer(TokenOf(userId))
    /\ verifyToken(TokenOf(userId), now).payload # <<>>
    /\ last.req.body.sessionId # <<>>
    /\ last.resp[1].status = 200

\* C21: after POST /api/chat with a valid Bearer token and a sessionId was
\* answered with the AI's reply, a stored chat session of that user holds
\* the user's message followed by the reply.
C21_ChatSessionSaved ==
    \A userId \in {1, 2} :
        ChatAnsweredFor(userId) =>
            \E n \in DOMAIN sessions :
                /\ sessions[n].userId = <<userId>>
                /\ Exchange(sessions[n].messages, last.req.body.message,
                            last.resp[1].payload[1].response)

----------------------------------------------------------------------------
(* More properties of the like toggle, checked under SpecLikes *)

\* the last call was a like-toggle of an authenticated user on an id that
\* no stored article had
ToggledMissing ==
    /\ last.op = "like"
    /\ last.req.user # <<>>
    /\ getArticleById(last.pre[2], last.req.id) = <<>>

\* C22: a like-toggle on an id of no stored article answers 404 and leaves
\* the Like records and the articles as they were.
C22_MissingArticle404 ==
    ToggledMissing =>
        /\ last.resp = LikeResponse(404, "Article not found", FALSE, 0)
        /\ likes = last.pre[3]
        /\ articles = last.pre[2]

\* the toggle met a storage that held an article and a Like record
C22_Witness ==
    /\ ToggledMissing
    /\ last.resp.status = 404
    /\ articles # <<>>
    /\ likes # <<>>

----------------------------------------------------------------------------
(* Properties of the chat sessions, checked under SpecSessions *)

\* after is before with the messages of session id replaced by messages
MessagesReplaced(before, after, id, messages) ==
    /\ Len(after) = Len(before)
    /\ \A n \in DOMAIN before :
          /\ after[n].id = before[n].id
          /\ after[n].userId = before[n].userId
          /\ after[n].createdAt = before[n].createdAt
          /\ after[n].messages = IF before[n].id = id THEN messages ELSE before[n].messages

\* the chat handler ran for a user with the id of a stored session and was
\* answered with the AI's reply
ChatUpdated ==
    /\ last.op = "chat"
    /\ last.pre.user # <<>>
    /\ last.req.body.sessionId # <<>>
    /\ last.resp[1].status = 200
    /\ getChatSession(last.pre.sessions, last.req.body.sessionId[1]) # <<>>

\* C23: updateChatSession replaces the messages of the session with the id
\* and changes nothing else, in both storages; the chat handler's update
\* passes the previous messages, then the user's message, then the reply.
C23_UpdateReplacesMessages ==
    /\ last.op = "updateChatSession" =>
          /\ MessagesReplaced(last.pre.mem.sessions, sessions, last.req.id, last.req.messages)
          /\ MessagesReplaced(last.pre.db.sessions, twin.sessions, last.req.id,
                              last.req.messages)
          /\ [Tables EXCEPT !.sessions = last.pre.mem.sessions] = last.pre.mem
          /\ [twin EXCEPT !.sessions = last.pre.db.sessions] = last.pre.db
    /\ ChatUpdated =>
          LET id == last.req.body.sessionId[1]
              previous == getChatSession(last.pre.sessions, id)[1].messages
              stored == getChatSession(sessions, id)[1].messages
          IN  /\ Len(stored) = Len(previous) + 2
              /\ SubSeq(stored, 1, Len(previous)) = previous
              /\ stored[Len(previous) + 1].role = "user"
              /\ stored[Len(previous) + 1].content = last.req.body.message
              /\ stored[Len(previous) + 2].role = "assistant"
              /\ stored[Len(previous) + 2].content = last.resp[1].payload[1].response
              /\ MessagesReplaced(last.pre.sessions, sessions, id, stored)

\* one of two stored sessions had its messages replaced by a different list
C23_Witness ==
    /\ last.op = "updateChatSession"
    /\ Len(sessions) = 2
    /\ \E n \in DOMAIN sessions :
          /\ sessions[n].id = last.req.id
          /\ sessions[n].messages = last.req.messages
          /\ last.pre.mem.sessions[n].messages # last.req.messages
          /\ last.pre.mem.sessions[n].messages # <<>>

\* C25: with like-toggles served one at a time on articles created with
\* likes = 0, after every request each article's counter is the number of
\* Like records stored for it.
C25_CounterIsRecordCount ==
    \A n \in DOMAIN articles :
        articles[n].likes = Cardinality(LikesOf(likes, articles[n].id))

\* an unlike was served while another user's like of the article stayed
C25_Witness ==
    /\ ToggleServed(last)
    /\ ~ last.resp.liked
    /\ ArticleLikes(articles, last.req.id) = 1
    /\ Cardinality(LikesOf(likes, last.req.id)) = 1
    /\ Cardinality(LikesOf(last.pre[3], last.req.id)) = 2

\* C26: no article's likes counter is negative, whatever like-toggles were
\* served and however their steps interleaved.
C26_LikesNeverNegative == \A n \in DOMAIN articles : articles[n].likes >= 0

\* an unlike that had read a counter of 0 was answered
C26_Witness ==
    \E i \in DOMAIN inflight :
        /\ inflight[i].op = "like" /\ inflight[i].pc = "done"
        /\ inflight[i].existingLike # <<>>
        /\ inflight[i].article # <<>>
        /\ inflight[i].article[1].likes = 0
        /\ inflight[i].resp[1] = LikeResponse(200, "", FALSE, 0)

----------------------------------------------------------------------------
(* Properties of the comments, checked under SpecApi *)

\* C24: every stored comment's articleId is the id of a stored article.
C24_CommentsReferToArticles ==
    \A n \in DOMAIN comments : getArticleById(articles, comments[n].articleId) # <<>>

----------------------------------------------------------------------------
(* Properties of the owner of comments and bookmarks, checked under SpecOwners *)

\* the user the token of the last request was issued to
Caller == verifyToken(last.req.header[2], now).payload[1].userId

\* the last request created a comment, or a bookmark
Posted(op) == last.op = op /\ last.resp.status = 200

\* C27: a created comment is stored with the userId of the verified token
\* and the articleId of the path, a created bookmark with the userId of the
\* verified token, whatever the body names.
C27_OwnerIsCaller ==
    /\ Posted("comment") =>
          LET comment == comments[Len(comments)]
          IN  /\ Len(comments) = Len(last.pre[4]) + 1
              /\ comment = last.resp.comment[1]
              /\ comment.userId = Caller
              /\ comment.articleId = last.req.id
    /\ Posted("postBookmark") =>
          LET bookmark == bookmarks[Len(bookmarks)]
          IN  /\ Len(bookmarks) = Len(last.pre[5]) + 1
              /\ bookmark = last.resp.bookmarks[1]
              /\ bookmark.userId = Caller

\* the body named another user and another article than the caller's
C27_Witness ==
    /\ Posted("comment")
    /\ "userId" \in DOMAIN last.req.body
    /\ last.req.body.userId # Caller
    /\ last.req.body.articleId # last.req.id

----------------------------------------------------------------------------
(* Properties of the bookmarks of different users, checked under SpecBookmarks *)

\* the bookmarks that belong to other users than userId, in stored order
OfOthers(bs, userId) == SelectSeq(bs, LAMBDA b : b.userId # userId)

\* C28: GET /api/bookmarks answers only bookmarks of the caller, and
\* DELETE /api/bookmarks leaves every bookmark of every other user as it
\* was, also one with the same (resourceType, resourceId).
C28_BookmarksIsolated ==
    /\ (last.op = "getBookmarks" /\ last.req.user # <<>>) =>
          \A n \in DOMAIN last.resp.bookmarks :
              last.resp.bookmarks[n].userId = last.req.user[1].userId
    /\ BookmarkDeleted(last) =>
          OfOthers(bookmarks, last.req.user[1].userId)
              = OfOthers(last.pre[5], last.req.user[1].userId)

\* the caller's bookmark was removed while another user held one of the same key
C28_Witness ==
    /\ BookmarkDeleted(last)
    /\ Len(bookmarks) < Len(last.pre[5])
    /\ \E n \in DOMAIN bookmarks :
          /\ bookmarks[n].userId # last.req.user[1].userId
          /\ SameKey(bookmarks[n], last.req.body)

----------------------------------------------------------------------------
(* More properties of GET /api/news, checked under SpecNews *)

\* C29: when getArticles returns articles for the category and page, the
\* handler answers exactly those, does not call the provider and writes
\* nothing; the provider is called only when that page is empty.
C29_StorageFirst ==
    last.op = "news" =>
        /\ Len(last.pre.storedArticles) > 0 =>
              /\ last.resp = NewsResponse(200, "", last.pre.storedArticles)
              /\ ~ last.pre.fetched
              /\ articles = last.pre.articles
        /\ last.pre.fetched => last.pre.storedArticles = <<>>

\* a page of one article was served from a storage that held more
C29_Witness ==
    /\ last.op = "news"
    /\ Len(last.pre.storedArticles) = 1
    /\ Len(articles) > 1
    /\ last.resp.status = 200

\* no two stored articles have the same url
UrlsUnique ==
    \A n, m \in DOMAIN articles : articles[n].url = articles[m].url => n = m

\* C30: with GET /api/news served one request at a time no two stored
\* articles have the same url, and an article the handler answers after a
\* fetch is a stored one: the one stored before under its url, if any.
C30_SequentialUrlsUnique ==
    /\ UrlsUnique
    /\ (last.op = "news" /\ last.pre.fetched) =>
          \A n \in DOMAIN last.resp.articles :
              LET answered == last.resp.articles[n]
              IN  /\ answered \in Range(articles)
                  /\ \A m \in WithUrl(last.pre.articles, answered.url) :
                        answered = last.pre.articles[m]

\* a batch with the same url twice was answered with the one stored article twice
C30_Witness ==
    /\ last.op = "news"
    /\ last.pre.fetched
    /\ last.pre.reply[1].articles = <<Budget, Budget>>
    /\ Len(last.resp.articles) = 2
    /\ last.resp.articles[1] = last.resp.articles[2]
    /\ Cardinality(WithUrl(articles, Budget.url)) = 1

====
